---- MODULE Spec2Model ----
(***************************************************************************)
(* neutron-lbaas: the LBaaS v2 dispatcher (LoadBalancerPluginv2), the      *)
(* driver_op / async_op decorators, the Octavia reconciliation thread      *)
(* (thread_op) and the delete methods of the haproxy namespace driver.     *)
(*                                                                         *)
(* One load balancer tree is modelled: lb1 owns listener ls1 and pool p1;  *)
(* p1 owns member m1 and health monitor h1.  A row that does not exist has *)
(* provisioning status NoRow.                                              *)
(***************************************************************************)
EXTENDS Integers, Sequences, FiniteSets, TLC

VARIABLES prov, vip_address, call, ncalls, task, allocates_vip,
          default_pool_id, provider_assoc, provider_name, hap, boot, view, v1, ns, tls,
          mgr

vars == <<prov, vip_address, call, ncalls, task, allocates_vip,
         default_pool_id, provider_assoc, provider_name, hap, boot, view, v1, ns, tls,
         mgr>>

\* the state of the dispatcher and its drivers, and the state of the parts
\* that are modelled on their own
dispatcher_vars == <<prov, vip_address, call, ncalls, task, allocates_vip,
                     default_pool_id, provider_assoc, provider_name>>
standalone_vars == <<boot, view, v1, ns, tls, mgr>>

(* ------------------------------------------------------------------ *)
(* Bounds                                                               *)
(* ------------------------------------------------------------------ *)
MaxCalls == 4
MaxAsyncCalls == 3
MaxTasks == 2
MaxGetLatency == 1

\* two API requests can be in the plugin at the same time
Callers == {"c1", "c2"}
TaskIds == 1..MaxTasks

(* ------------------------------------------------------------------ *)
(* The resource tree (models.py) and the provisioning statuses          *)
(* ------------------------------------------------------------------ *)
Ids == {"lb1", "ls1", "p1", "m1", "h1"}

Kind(id) ==
    CASE id = "lb1" -> "loadbalancer"
      [] id = "ls1" -> "listener"
      [] id = "p1" -> "pool"
      [] id = "m1" -> "member"
      [] OTHER -> "healthmonitor"

root_loadbalancer(id) == "lb1"

\* the row an id hangs under: the pool of a member or health monitor, the
\* load balancer of a listener or pool
ParentOf(id) == IF id \in {"m1", "h1"} THEN "p1" ELSE "lb1"

NoRow == "NONE"
PENDING_CREATE == "PENDING_CREATE"
PENDING_UPDATE == "PENDING_UPDATE"
PENDING_DELETE == "PENDING_DELETE"
ACTIVE == "ACTIVE"
ERROR == "ERROR"
Pending == {PENDING_CREATE, PENDING_UPDATE, PENDING_DELETE}
Status == Pending \cup {ACTIVE, ERROR}

Verbs == {"create", "update", "delete"}

\* the provider names a configuration can hold, and a load balancer row
\* that has no ProviderResourceAssociation row (lb.provider is None)
ProviderNames == {"haproxy", "octavia"}
NoProvider == "None"
Vips == {"", "10.0.0.9", "10.1.1.1"}

(* ------------------------------------------------------------------ *)
(* StatusStore (LoadBalancerPluginDbv2)                                 *)
(* ------------------------------------------------------------------ *)
\* update_status: unconditional write, a no-op on a row that is gone
update_status(pv, id, st) ==
    IF pv[id] = NoRow THEN pv ELSE [pv EXCEPT ![id] = st]

\* update_loadbalancer_provisioning_status(lb_id): status defaults to ACTIVE
update_loadbalancer_provisioning_status(pv, lb_id) ==
    update_status(pv, lb_id, ACTIVE)

\* the outcome of test_and_set_status, decided on the root load balancer
test_and_set_result(pv, id) ==
    IF pv[id] = NoRow \/ pv[root_loadbalancer(id)] = NoRow THEN "EntityNotFound"
    ELSE IF pv[root_loadbalancer(id)] \in Pending THEN "StateInvalid"
    ELSE "OK"

\* the store after a test_and_set_status that was allowed
test_and_set_status(pv, id, st) ==
    IF id = root_loadbalancer(id)
    THEN [pv EXCEPT ![id] = st]
    ELSE [pv EXCEPT ![root_loadbalancer(id)] = PENDING_UPDATE, ![id] = st]

\* db_delete_method: the row and the rows that hang under it are removed
db_delete(pv, id) ==
    [x \in Ids |-> IF x = id \/ (x # "lb1" /\ ParentOf(x) = id) THEN NoRow
                   ELSE pv[x]]

(* ------------------------------------------------------------------ *)
(* Completion callbacks (driver_mixins.BaseManagerMixin)                *)
(* ------------------------------------------------------------------ *)
successful_completion(pv, id, delete) ==
    IF delete
    THEN IF id = root_loadbalancer(id)
         THEN db_delete(pv, id)
         ELSE update_status(db_delete(pv, id), root_loadbalancer(id), ACTIVE)
    ELSE IF id = root_loadbalancer(id)
         THEN update_status(pv, id, ACTIVE)
         ELSE update_status(update_status(pv, id, ACTIVE),
                            root_loadbalancer(id), ACTIVE)

failed_completion(pv, id) ==
    IF id = root_loadbalancer(id)
    THEN update_status(pv, id, ERROR)
    ELSE update_status(update_status(pv, id, ERROR),
                       root_loadbalancer(id), ACTIVE)

(* ------------------------------------------------------------------ *)
(* driver_op and the dispatcher's _call_driver_operation                *)
(* ------------------------------------------------------------------ *)
\* what a manager method can do: return, raise, or raise one of the two
\* agent-scheduler exceptions the dispatcher re-raises unchanged
DriverOutcomes == {"ok", "Exception", "NoActiveLbaasAgent", "NoEligibleLbaasAgent"}
NoAgent == {"NoActiveLbaasAgent", "NoEligibleLbaasAgent"}

\* driver_op without the except branch
driver_op_no_except(pv, verb, id, outcome) ==
    IF outcome = "ok"
    THEN successful_completion(pv, id, verb = "delete")
    ELSE pv

\* driver_op: the store after the wrapped manager method has returned or raised
driver_op(pv, verb, id, outcome) ==
    IF outcome = "ok"
    THEN successful_completion(pv, id, verb = "delete")
    ELSE failed_completion(pv, id)

handle_driver_error(pv, id) == update_status(pv, root_loadbalancer(id), ERROR)

\* _call_driver_operation raising DriverError without _handle_driver_error
call_driver_operation_no_error(pv, id, outcome) == pv

\* _call_driver_operation: the store after the driver method, seen through
\* the dispatcher's try/except (pv is the store the driver method left)
call_driver_operation(pv, id, outcome) ==
    IF outcome = "ok" \/ outcome \in NoAgent
    THEN pv
    ELSE handle_driver_error(pv, id)

\* _call_driver_operation letting the driver's exception through as it is
call_driver_raises_unwrapped(outcome) ==
    IF outcome = "ok" THEN "OK" ELSE outcome

\* _call_driver_operation: what the caller of the plugin method sees
call_driver_raises(outcome) ==
    IF outcome = "ok" THEN "OK"
    ELSE IF outcome \in NoAgent THEN outcome
    ELSE "DriverError"

(* ------------------------------------------------------------------ *)
(* LoadBalancerPluginv2: one API call is a sequence of steps            *)
(* ------------------------------------------------------------------ *)
\* plugin methods whose update and delete go to the driver without
\* test_and_set_status
Program_no_tas(verb, id) ==
    IF verb = "delete" THEN <<"driver", "done">>
    ELSE IF verb = "update" THEN <<"dbwrite", "driver", "done">>
    ELSE IF id = "lb1" THEN <<"dbwrite", "assoc", "driver", "done">>
    ELSE IF id = "p1" THEN <<"dbwrite", "tas", "link", "driver", "done">>
    ELSE <<"tas", "dbwrite", "driver", "done">>

\* plugin methods whose delete calls the driver before test_and_set_status
Program_driver_before_tas(verb, id) ==
    IF verb = "delete" THEN <<"driver", "tas", "done">>
    ELSE IF verb = "update" THEN <<"tas", "dbwrite", "driver", "done">>
    ELSE IF id = "lb1" THEN <<"dbwrite", "assoc", "driver", "done">>
    ELSE IF id = "p1" THEN <<"dbwrite", "tas", "link", "driver", "done">>
    ELSE <<"tas", "dbwrite", "driver", "done">>

\* the steps of each plugin method after its validation
Program(verb, id) ==
    IF verb = "delete" THEN <<"tas", "driver", "done">>
    ELSE IF verb = "update" THEN <<"tas", "dbwrite", "driver", "done">>
    ELSE IF id = "lb1" THEN <<"dbwrite", "assoc", "driver", "done">>
    ELSE IF id = "p1" THEN <<"dbwrite", "tas", "link", "driver", "done">>
    ELSE <<"tas", "dbwrite", "driver", "done">>

StepAfter(verb, id, pc) ==
    LET prog == Program(verb, id) IN
    IF pc = "idle" THEN prog[1]
    ELSE prog[(CHOOSE i \in 1..Len(prog) : prog[i] = pc) + 1]

(* ------------------------------------------------------------------ *)
(* Request payloads and their validation                                *)
(* ------------------------------------------------------------------ *)
\* a load balancer and a pool of another tree; they exist throughout and
\* are only ever named by a request
ForeignLb == "lb2"
ForeignPool == "p2"

SESSION_PERSISTENCE_APP_COOKIE == "APP_COOKIE"
SpTypes == {SESSION_PERSISTENCE_APP_COOKIE, "HTTP_COOKIE", "SOURCE_IP"}
CookieNames == {"", "sid"}

\* session_persistence of a pool payload: given is false for None and {};
\* has_cookie_name says whether the key is in the dict
NoSp == [given |-> FALSE, type |-> "SOURCE_IP", has_cookie_name |-> FALSE,
         cookie_name |-> ""]
SpInfos ==
    {NoSp} \cup
    {sp \in [given : {TRUE}, type : SpTypes, has_cookie_name : BOOLEAN,
             cookie_name : CookieNames] :
        ~sp.has_cookie_name => sp.cookie_name = ""}

\* sp_info.get('cookie_name') is truthy
sp_get_cookie_name(sp_info) ==
    sp_info.has_cookie_name /\ sp_info.cookie_name # ""

\* a validation that lets every cookie_name through
validate_session_persistence_info_any_cookie(sp_info) == "OK"

\* _validate_session_persistence_info
validate_session_persistence_info(sp_info) ==
    IF ~sp_info.given THEN "OK"
    ELSE IF sp_info.type = SESSION_PERSISTENCE_APP_COOKIE
         THEN IF ~sp_get_cookie_name(sp_info)
              THEN "SessionPersistenceConfigurationInvalid"
              ELSE "OK"
         ELSE IF sp_info.has_cookie_name
              THEN "SessionPersistenceConfigurationInvalid"
              ELSE "OK"

\* the fields of a request body that the plugin methods look at
NoReq ==
    [lb |-> "", pool |-> "", listener |-> "", sp |-> NoSp,
     flavor |-> FALSE, provider |-> FALSE, graph |-> FALSE,
     provider_name |-> ""]

Requests(verb, id) ==
    CASE verb = "create" /\ id = "lb1" ->
            {r \in {[NoReq EXCEPT !.flavor = f, !.provider = p, !.graph = g,
                                  !.provider_name = n] :
                        f \in BOOLEAN, p \in BOOLEAN, g \in BOOLEAN,
                        n \in ProviderNames \cup {""}} :
                r.provider_name # "" <=> (r.provider \/ r.flavor)}
      [] verb = "create" /\ id = "ls1" ->
            {[NoReq EXCEPT !.lb = l, !.pool = q] :
                l \in {"", "lb1", ForeignLb}, q \in {"", "p1"}}
      [] verb = "update" /\ id = "ls1" ->
            {[NoReq EXCEPT !.pool = q] : q \in {"", "p1", ForeignPool}}
      [] verb = "create" /\ id = "p1" ->
            {[NoReq EXCEPT !.lb = l, !.listener = n, !.sp = sp] :
                l \in {"", "lb1", ForeignLb}, n \in {"", "ls1"},
                sp \in SpInfos}
      [] verb = "update" /\ id = "p1" ->
            {[NoReq EXCEPT !.sp = sp] : sp \in SpInfos}
      [] OTHER -> {NoReq}

\* driver.load_balancer.allows_create_graph of the drivers modelled here
allows_create_graph == FALSE

\* the load balancer a pool is on
pool_loadbalancer(pool_id) == IF pool_id = ForeignPool THEN ForeignLb ELSE "lb1"

\* create_loadbalancer / create_graph accepting a provider next to a flavor
validate_create_loadbalancer_no_conflict(req) ==
    IF req.graph /\ ~allows_create_graph
    THEN "ProviderCannotCreateLoadBalancerGraph"
    ELSE "OK"

\* create_loadbalancer / create_graph up to db.create_loadbalancer
validate_create_loadbalancer(req) ==
    IF req.flavor /\ req.provider THEN "ProviderFlavorConflict"
    ELSE IF req.graph /\ ~allows_create_graph
    THEN "ProviderCannotCreateLoadBalancerGraph"
    ELSE "OK"

\* _get_provider_name, after _insert_provider_name_from_flavor has put the
\* provider of the flavor's service profile into the body; self.default_provider
\* is "haproxy" here
get_provider_name(req) ==
    IF req.provider_name # "" THEN req.provider_name ELSE "haproxy"

\* _get_driver_for_loadbalancer: the key of self.drivers it returns, from
\* lb.provider.provider_name
get_driver_for_loadbalancer(name) ==
    IF name = NoProvider THEN "AttributeError" ELSE name

\* create_listener up to test_and_set_status
validate_create_listener(pv, req) ==
    IF req.pool # ""
    THEN IF pv[req.pool] = NoRow THEN "EntityNotFound"
         ELSE IF req.lb = "" THEN "OK"
         ELSE IF req.lb = "lb1" /\ pv["lb1"] = NoRow THEN "EntityNotFound"
         ELSE IF req.lb # pool_loadbalancer(req.pool)
              THEN "ListenerAndPoolMustBeOnSameLoadbalancer"
         ELSE "OK"
    ELSE IF req.lb = "" THEN "ListenerMustHaveLoadbalancer"
    ELSE "OK"

\* update_listener without _check_listener_pool_lb_match
validate_update_listener_no_lb_match(pv, req) ==
    IF req.pool = "" THEN "OK"
    ELSE IF req.pool = "p1" /\ pv["p1"] = NoRow THEN "EntityNotFound"
    ELSE "OK"

\* update_listener: _check_listener_pool_lb_match
validate_update_listener(pv, req) ==
    IF req.pool = "" THEN "OK"
    ELSE IF req.pool = "p1" /\ pv["p1"] = NoRow THEN "EntityNotFound"
    ELSE IF pool_loadbalancer(req.pool) # "lb1"
         THEN "ListenerAndPoolMustBeOnSameLoadbalancer"
    ELSE "OK"

\* create_pool up to db.create_pool
validate_create_pool(pv, dp, req) ==
    LET lb_id == IF req.lb # "" THEN req.lb
                 ELSE IF req.listener # "" THEN "lb1" ELSE ""
    IN IF req.listener # "" /\ pv[req.listener] = NoRow THEN "EntityNotFound"
       ELSE IF req.listener # "" /\ lb_id # "lb1"
            THEN "ListenerAndPoolMustBeOnSameLoadbalancer"
       ELSE IF req.listener # "" /\ dp # ""
            THEN "ListenerDefaultPoolAlreadySet"
       ELSE IF lb_id = "" THEN "PoolMustHaveLoadbalancer"
       ELSE validate_session_persistence_info(req.sp)

\* the load balancer the request is for, once it has been validated
request_loadbalancer(verb, id, req) ==
    IF verb = "create" /\ id \in {"ls1", "p1"} /\ req.lb # "" THEN req.lb
    ELSE "lb1"


\* delete_pool without the health monitor check
check_result_no_hm_check(pv, verb, id) ==
    CASE verb = "create" /\ id = "m1" ->
            IF pv["p1"] = NoRow THEN "EntityNotFound" ELSE "OK"
      [] verb = "create" /\ id = "h1" ->
            IF pv["p1"] = NoRow THEN "EntityNotFound"
            ELSE IF pv["h1"] # NoRow THEN "OneHealthMonitorPerPool"
            ELSE "OK"
      [] verb = "update" /\ id = "m1" ->
            IF pv["p1"] = NoRow \/ pv["m1"] = NoRow THEN "EntityNotFound"
            ELSE "OK"
      [] verb = "update" /\ id # "m1" ->
            IF pv[id] = NoRow THEN "EntityNotFound" ELSE "OK"
      [] verb = "delete" /\ id = "lb1" ->
            IF pv["lb1"] = NoRow THEN "EntityNotFound"
            ELSE IF pv["ls1"] # NoRow \/ pv["p1"] # NoRow THEN "EntityInUse"
            ELSE "OK"
      [] verb = "delete" /\ id \in {"ls1", "p1"} ->
            IF pv[id] = NoRow THEN "EntityNotFound" ELSE "OK"
      [] verb = "delete" /\ id = "m1" ->
            IF pv["p1"] = NoRow THEN "EntityNotFound" ELSE "OK"
      [] OTHER -> "OK"

\* the reads and checks each plugin method makes before its first write
check_result(pv, verb, id) ==
    CASE verb = "create" /\ id = "m1" ->
            IF pv["p1"] = NoRow THEN "EntityNotFound" ELSE "OK"
      [] verb = "create" /\ id = "h1" ->
            IF pv["p1"] = NoRow THEN "EntityNotFound"
            ELSE IF pv["h1"] # NoRow THEN "OneHealthMonitorPerPool"
            ELSE "OK"
      [] verb = "create" /\ id \in {"lb1", "ls1", "p1"} -> "OK"
      [] verb = "update" /\ id = "m1" ->
            IF pv["p1"] = NoRow \/ pv["m1"] = NoRow THEN "EntityNotFound"
            ELSE "OK"
      [] verb = "update" /\ id # "m1" ->
            IF pv[id] = NoRow THEN "EntityNotFound" ELSE "OK"
      [] verb = "delete" /\ id = "lb1" ->
            IF pv["lb1"] = NoRow THEN "EntityNotFound"
            ELSE IF pv["ls1"] # NoRow \/ pv["p1"] # NoRow THEN "EntityInUse"
            ELSE "OK"
      [] verb = "delete" /\ id = "ls1" ->
            IF pv["ls1"] = NoRow THEN "EntityNotFound" ELSE "OK"
      [] verb = "delete" /\ id = "p1" ->
            IF pv["p1"] = NoRow THEN "EntityNotFound"
            ELSE IF pv["h1"] # NoRow THEN "EntityInUse"
            ELSE "OK"
      [] verb = "delete" /\ id = "m1" ->
            IF pv["p1"] = NoRow THEN "EntityNotFound" ELSE "OK"
      [] OTHER -> "OK"

\* the row test_and_set_status is called on, and the status it asks for
TasTarget(verb, id) == IF verb = "create" THEN root_loadbalancer(id) ELSE id
TasStatus(verb) == IF verb = "delete" THEN PENDING_DELETE ELSE PENDING_UPDATE

\* the except-branch after a failed local database write
rollback(pv, verb, id, old) ==
    IF verb = "update" /\ id = "lb1" THEN update_status(pv, "lb1", old)
    ELSE IF verb = "update" /\ id = "ls1"
         THEN update_status(update_status(pv, "lb1", ACTIVE), "ls1", ACTIVE)
    ELSE IF verb = "create" /\ id \in {"lb1", "p1"} THEN pv
    ELSE update_loadbalancer_provisioning_status(pv, root_loadbalancer(id))

IdleCall ==
    [verb |-> "none", tgt |-> "none", pc |-> "idle", res |-> "none",
     old |-> NoRow, passed |-> FALSE, drv |-> 0, conc |-> {}, link |-> FALSE,
     fc |-> 0, provider |-> "none", driver |-> "none", pool |-> "",
     sc |-> 0]

InFlight(c) == call[c].pc \notin {"idle", "done"}

\* what the reads and validations of a plugin method come to, in the order
\* the method makes them
request_result(pv, dp, verb, id, req) ==
    LET found == check_result(pv, verb, id) IN
    CASE verb = "create" /\ id = "lb1" -> validate_create_loadbalancer(req)
      [] verb = "create" /\ id = "ls1" -> validate_create_listener(pv, req)
      [] verb = "update" /\ id = "ls1" ->
            IF found # "OK" THEN found ELSE validate_update_listener(pv, req)
      [] verb = "create" /\ id = "p1" -> validate_create_pool(pv, dp, req)
      [] verb = "update" /\ id = "p1" ->
            IF validate_session_persistence_info(req.sp) # "OK"
            THEN validate_session_persistence_info(req.sp)
            ELSE found
      [] OTHER -> found

\* the request makes this call point a listener at a pool
request_links(verb, id, req) ==
    \/ verb \in {"create", "update"} /\ id = "ls1" /\ req.pool # ""
    \/ verb = "create" /\ id = "p1" /\ req.listener = "ls1"

\* the pool that call becomes the default pool of the listener
request_pool(verb, id, req) ==
    IF ~request_links(verb, id, req) THEN ""
    ELSE IF id = "ls1" THEN req.pool ELSE id

\* a plugin method is entered and runs up to its first store write
Begin(c, verb, id, req) ==
    /\ call[c].pc = "idle"
    /\ \A t \in TaskIds : task[t].pc # "done"
    /\ ncalls < MaxCalls
    /\ ncalls' = ncalls + 1
    /\ LET r == request_result(prov, default_pool_id, verb, id, req)
           others == {d \in Callers \ {c} : InFlight(d)}
       IN /\ r = "OK" => request_loadbalancer(verb, id, req) = "lb1"
          /\ (r = "OK" /\ verb = "create" /\ id \in {"lb1", "p1"}) =>
                /\ prov[id] = NoRow
                /\ \A d \in Callers : ~(InFlight(d) /\ call[d].verb = "create"
                                        /\ call[d].tgt = id)
          /\ call' = [d \in Callers |->
                    IF d = c
                    THEN [IdleCall EXCEPT !.verb = verb, !.tgt = id,
                            !.pc = IF r = "OK" THEN StepAfter(verb, id, "idle")
                                   ELSE "done",
                            !.res = IF r = "OK" THEN "none" ELSE r,
                            !.old = IF verb = "update" /\ id = "lb1"
                                    THEN prov[id] ELSE NoRow,
                            !.link = r = "OK" /\ request_links(verb, id, req),
                            !.pool = IF r = "OK"
                                     THEN request_pool(verb, id, req) ELSE "",
                            !.provider = IF r = "OK" /\ verb = "create"
                                            /\ id = "lb1"
                                         THEN get_provider_name(req)
                                         ELSE "none",
                            !.conc = others]
                    ELSE IF d \in others
                         THEN [call[d] EXCEPT !.conc = @ \cup {c}]
                         ELSE call[d]]
    /\ UNCHANGED <<prov, vip_address, task, allocates_vip, default_pool_id,
                 provider_assoc, provider_name, hap, standalone_vars>>

\* db.test_and_set_status, one transaction
TestAndSet(c) ==
    /\ call[c].pc = "tas"
    /\ LET verb == call[c].verb
           id == call[c].tgt
           t == TasTarget(verb, id)
           r == test_and_set_result(prov, t)
       IN IF r = "OK"
          THEN /\ prov' = test_and_set_status(prov, t, TasStatus(verb))
               /\ call' = [call EXCEPT ![c].passed = TRUE,
                              ![c].pc = StepAfter(verb, id, "tas")]
          ELSE /\ prov' = prov
               /\ call' = [call EXCEPT ![c].pc = "done", ![c].res = r]
    /\ UNCHANGED <<vip_address, ncalls, task, allocates_vip, default_pool_id,
                 provider_assoc, provider_name, hap, standalone_vars>>

\* what the try block around a local database write can raise; for a
\* listener it starts with _validate_tls
TlsErrors == {"TLSContainerNotFound", "TLSContainerInvalid"}
DbWriteErrors(verb, id) ==
    IF id = "ls1" /\ verb \in {"create", "update"}
    THEN {"DBError"} \cup TlsErrors
    ELSE {"DBError"}

\* rows that go with a deleted row: a listener's default_pool_id is cleared
\* with the pool or the listener, the provider association with the load
\* balancer
default_pool_after(pv, dp) ==
    IF pv["ls1"] = NoRow \/ pv["p1"] = NoRow THEN "" ELSE dp
provider_after(pv, pa) == pa /\ pv["lb1"] # NoRow
provider_name_after(pv, name) ==
    IF pv["lb1"] = NoRow THEN NoProvider ELSE name

\* the local database write of a create or update, which can raise; h1 is
\* the monitor the pool points at: create_healthmonitor_on_pool inserts a
\* monitor and sets the pool's healthmonitor_id, whatever it was
DbWrite(c) ==
    /\ call[c].pc = "dbwrite"
    /\ LET verb == call[c].verb
           id == call[c].tgt
           canWrite == IF verb = "create"
                       THEN /\ id # "h1" => prov[id] = NoRow
                            /\ id # "lb1" => prov[ParentOf(id)] # NoRow
                            /\ call[c].link /\ id = "ls1"
                                 /\ call[c].pool = "p1" => prov["p1"] # NoRow
                       ELSE /\ prov[id] # NoRow
                            /\ call[c].link /\ id = "ls1"
                                 /\ call[c].pool = "p1" => prov["p1"] # NoRow
       IN \E outcome \in {"ok"} \cup DbWriteErrors(verb, id) :
            /\ ~canWrite => outcome # "ok"
            /\ IF outcome # "ok"
               THEN /\ prov' = rollback(prov, verb, id, call[c].old)
                    /\ call' = [call EXCEPT ![c].pc = "done",
                                            ![c].res = outcome]
                    /\ UNCHANGED <<vip_address, default_pool_id>>
               ELSE /\ prov' = IF verb = "create"
                               THEN [prov EXCEPT ![id] = PENDING_CREATE]
                               ELSE prov
                    /\ call' = [call EXCEPT
                                  ![c].pc = StepAfter(verb, id, "dbwrite")]
                    /\ vip_address' =
                          IF verb = "create" /\ id = "lb1"
                          THEN (IF allocates_vip THEN "" ELSE "10.0.0.9")
                          ELSE vip_address
                    /\ default_pool_id' =
                          IF id = "ls1" /\ call[c].link
                          THEN call[c].pool ELSE default_pool_id
    /\ UNCHANGED <<ncalls, task, allocates_vip, provider_assoc,
                   provider_name, hap, standalone_vars>>

\* create_loadbalancer: service_type_manager.add_resource_association, a
\* transaction of its own after db.create_loadbalancer; nothing catches what
\* it raises
AddResourceAssociation(c) ==
    /\ call[c].pc = "assoc"
    /\ \E fails \in BOOLEAN :
         IF fails
         THEN /\ call' = [call EXCEPT ![c].pc = "done", ![c].res = "DBError"]
              /\ UNCHANGED <<provider_assoc, provider_name>>
         ELSE /\ call' = [call EXCEPT ![c].pc =
                             StepAfter(call[c].verb, call[c].tgt, "assoc")]
              /\ provider_assoc' = TRUE
              /\ provider_name' = call[c].provider
    /\ UNCHANGED <<prov, vip_address, ncalls, task, allocates_vip,
                   default_pool_id, hap, standalone_vars>>

\* create_pool: db.update_listener for each listener named by the request
UpdateListeners(c) ==
    /\ call[c].pc = "link"
    /\ LET verb == call[c].verb
           id == call[c].tgt
       IN IF ~call[c].link
          THEN /\ call' = [call EXCEPT ![c].pc = StepAfter(verb, id, "link")]
               /\ UNCHANGED <<prov, default_pool_id>>
          ELSE \E fails \in BOOLEAN :
                 /\ prov["ls1"] = NoRow => fails
                 /\ IF fails
                    THEN /\ prov' = update_loadbalancer_provisioning_status(
                                        prov, root_loadbalancer(id))
                         /\ call' = [call EXCEPT ![c].pc = "done",
                                                 ![c].res = "DBError"]
                         /\ UNCHANGED default_pool_id
                    ELSE /\ call' = [call EXCEPT
                                       ![c].pc = StepAfter(verb, id, "link")]
                         /\ default_pool_id' = call[c].pool
                         /\ UNCHANGED prov
    /\ UNCHANGED <<vip_address, ncalls, task, allocates_vip, provider_assoc, provider_name,
                   hap, standalone_vars>>

\* the completion calls a driver_op-wrapped method makes; successful_completion
\* is called inside the try block, so when it raises ("CompletionError": the
\* wrapped method has returned) the except branch calls failed_completion too
driver_op_failed_completions(outcome) == IF outcome = "ok" THEN 0 ELSE 1
driver_op_successful_completions(outcome) ==
    IF outcome \in {"ok", "CompletionError"} THEN 1 ELSE 0

\* the driver a plugin method picks: create_loadbalancer takes the one of
\* the provider name it resolved, every other method asks
\* _get_driver_for_loadbalancer (or reads old_lb.provider.provider_name)
driver_for(verb, id, resolved, name) ==
    IF verb = "create" /\ id = "lb1" THEN resolved
    ELSE get_driver_for_loadbalancer(name)

\* the driver lookup raised: the plugin method ends there
DriverLookupRaises(c, driver) ==
    /\ call' = [call EXCEPT ![c].pc = "done", ![c].res = driver]
    /\ UNCHANGED <<prov, default_pool_id, provider_assoc, provider_name, task>>

\* _call_driver_operation on a manager method wrapped by driver_op
CallDriverSync(c) ==
    /\ call[c].pc = "driver"
    /\ \E outcome \in DriverOutcomes \cup {"CompletionError"} :
         LET verb == call[c].verb
             id == call[c].tgt
             driver == driver_for(verb, id, call[c].provider, provider_name)
             pv == call_driver_operation(driver_op(prov, verb, id, outcome),
                                         id, outcome)
         IN IF driver = "AttributeError"
            THEN DriverLookupRaises(c, driver)
            ELSE
            /\ prov' = pv
            /\ default_pool_id' = default_pool_after(pv, default_pool_id)
            /\ provider_assoc' = provider_after(pv, provider_assoc)
            /\ provider_name' = provider_name_after(pv, provider_name)
            /\ task' = task
            /\ call' = [call EXCEPT ![c].pc = StepAfter(verb, id, "driver"),
                           ![c].drv = @ + 1,
                           ![c].driver = driver,
                           ![c].fc = driver_op_failed_completions(outcome),
                           ![c].sc = driver_op_successful_completions(outcome),
                           ![c].res = call_driver_raises(outcome)]
    /\ UNCHANGED <<vip_address, ncalls, allocates_vip, hap, standalone_vars>>

\* the plugin method has returned or raised; the caller is free again
Return(c) ==
    /\ call[c].pc = "done"
    /\ call' = [d \in Callers |->
                  IF d = c THEN IdleCall
                  ELSE [call[d] EXCEPT !.conc = @ \ {c}]]
    /\ UNCHANGED <<prov, vip_address, ncalls, task, allocates_vip, default_pool_id,
                 provider_assoc, provider_name, hap, standalone_vars>>

(* ------------------------------------------------------------------ *)
(* The Octavia driver: async_op and thread_op                           *)
(* ------------------------------------------------------------------ *)
request_poll_interval == 1
request_poll_timeout == 2

\* what the polled backend can answer as provisioning_status; "None" is a
\* body without the key
DELETED == "DELETED"
Reported == Pending \cup {ACTIVE, ERROR, DELETED, "None"}
ReportedIps == {"", "10.1.1.1"}

\* timedelta.seconds of a non-negative elapsed time: the seconds within the day
Seconds(elapsed) == elapsed % 86400

\* a loop condition that lets one more poll through at the timeout
keeps_polling_off_by_one(elapsed) == Seconds(elapsed) <= request_poll_timeout

\* the loop condition of thread_op
keeps_polling(elapsed) == Seconds(elapsed) < request_poll_timeout

\* async_op: the flags it hands to thread_op
async_op_delete(verb) == verb = "delete"
async_op_lb_create_any_manager(verb, id) == verb = "create"
async_op_lb_create(verb, id) == verb = "create" /\ Kind(id) = "loadbalancer"

\* thread_op not recognising ACTIVE
thread_op_branch_misses_active(prov_status) ==
    IF prov_status = DELETED THEN "success"
    ELSE IF prov_status = ERROR THEN "failure"
    ELSE "sleep"

\* thread_op without the ERROR branch
thread_op_branch_misses_error(prov_status) ==
    IF prov_status = ACTIVE \/ prov_status = DELETED THEN "success"
    ELSE "sleep"

\* thread_op taking any terminal report as success
thread_op_branch_error_is_success(prov_status) ==
    IF prov_status \in {ACTIVE, DELETED, ERROR} THEN "success" ELSE "sleep"

\* thread_op: what a report makes the thread do
thread_op_branch(prov_status) ==
    IF prov_status = ACTIVE \/ prov_status = DELETED THEN "success"
    ELSE IF prov_status = ERROR THEN "failure"
    ELSE "sleep"

\* thread_op: the lb_create keyword is passed on only by a vip-allocating driver
thread_op_kw_lb_create(allocates, lb_create) == allocates /\ lb_create

IdleTask ==
    [pc |-> "free", verb |-> "none", id |-> "none", delete |-> FALSE,
     lb_create |-> FALSE, elapsed |-> 0, prov_status |-> "None",
     reported_ip |-> "", vip |-> "", polls |-> 0,
     succ |-> 0, fail |-> 0, kw_delete |-> FALSE, kw_lb_create |-> FALSE,
     gone |-> FALSE]

FreeTask == CHOOSE t \in TaskIds : task[t].pc = "free"

\* an async_op that starts the thread before it calls the wrapped method
async_op_starts_thread_always(outcome) == TRUE

\* async_op: the thread is started after the wrapped method has returned
async_op_starts_thread(outcome) == outcome = "ok"

\* async_op: failed_completion is called in the except branch
async_op_failed_completions(outcome) == IF outcome = "ok" THEN 0 ELSE 1

\* OctaviaRequest.request does not look at the status code, and reads no
\* body for DELETE: a delete of something the backend has no record of
\* returns like any other
request_delete_absent == "ok"

\* what GET /v1/loadbalancers/{id} can carry as provisioning_status: nothing
\* when the backend has no record of the load balancer
Reportable(gone, id) ==
    IF gone /\ id = root_loadbalancer(id) THEN {"None"} ELSE Reported

\* _call_driver_operation on a manager method wrapped by async_op
CallDriverAsync(c) ==
    /\ call[c].pc = "driver"
    /\ \E t \in TaskIds : task[t].pc = "free"
    /\ \E outcome \in DriverOutcomes, gone \in BOOLEAN :
         LET verb == call[c].verb
             id == call[c].tgt
             driver == driver_for(verb, id, call[c].provider, provider_name)
         IN IF driver = "AttributeError"
            THEN DriverLookupRaises(c, driver)
            ELSE
            /\ gone => verb = "delete" /\ outcome = request_delete_absent
            /\ UNCHANGED <<default_pool_id, provider_assoc, provider_name>>
            /\ call' = [call EXCEPT ![c].pc = StepAfter(verb, id, "driver"),
                           ![c].drv = @ + 1,
                           ![c].driver = driver,
                           ![c].fc = async_op_failed_completions(outcome),
                           ![c].res = call_driver_raises(outcome)]
            /\ IF async_op_starts_thread(outcome)
               THEN task' = [task EXCEPT ![FreeTask] =
                                  [IdleTask EXCEPT !.pc = "run", !.verb = verb,
                                     !.id = id,
                                     !.delete = async_op_delete(verb),
                                     !.lb_create = async_op_lb_create(verb, id),
                                     !.vip = vip_address,
                                     !.gone = gone]]
               ELSE task' = task
            /\ IF outcome = "ok"
               THEN prov' = prov
               ELSE prov' = call_driver_operation(failed_completion(prov, id),
                                                  id, outcome)
    /\ UNCHANGED <<vip_address, ncalls, allocates_vip, hap, standalone_vars>>

\* one pass of the while loop whose GET answers: the report is looked at and
\* the thread completes the operation or goes to sleep
ThreadPoll(t) ==
    /\ task[t].pc = "run"
    /\ keeps_polling(task[t].elapsed)
    /\ \E prov_status \in Reportable(task[t].gone, task[t].id),
          ip \in ReportedIps, lat \in 0..MaxGetLatency :
         LET me == task[t]
             branch == thread_op_branch(prov_status)
             kw == thread_op_kw_lb_create(allocates_vip, me.lb_create)
             polled == [me EXCEPT !.prov_status = prov_status,
                                  !.elapsed = @ + lat,
                                  !.polls = @ + 1]
         IN /\ (~(kw /\ branch = "success")) => ip = ""
            /\ IF branch = "success"
               THEN /\ task' = [task EXCEPT ![t] =
                                  [polled EXCEPT !.pc = "done", !.succ = @ + 1,
                                     !.kw_delete = me.delete,
                                     !.kw_lb_create = kw,
                                     !.reported_ip = ip,
                                     !.vip = IF kw THEN ip ELSE @]]
                    /\ prov' = successful_completion(prov, me.id, me.delete)
                    /\ vip_address' = IF kw /\ prov[me.id] # NoRow /\ ~me.delete
                                      THEN ip ELSE vip_address
               ELSE IF branch = "failure"
               THEN /\ task' = [task EXCEPT ![t] =
                                  [polled EXCEPT !.pc = "done", !.fail = @ + 1]]
                    /\ prov' = failed_completion(prov, me.id)
                    /\ UNCHANGED vip_address
               ELSE /\ task' = [task EXCEPT ![t] = [polled EXCEPT !.pc = "sleep"]]
                    /\ UNCHANGED <<prov, vip_address>>
    /\ default_pool_id' = default_pool_after(prov', default_pool_id)
    /\ provider_assoc' = provider_after(prov', provider_assoc)
    /\ provider_name' = provider_name_after(prov', provider_name)
    /\ UNCHANGED <<call, ncalls, allocates_vip, hap, standalone_vars>>

\* one pass of the while loop whose GET raises: nothing in thread_op catches it
ThreadPollRaises(t) ==
    /\ task[t].pc = "run"
    /\ keeps_polling(task[t].elapsed)
    /\ \E lat \in 0..MaxGetLatency :
         task' = [task EXCEPT ![t].pc = "dead", ![t].elapsed = @ + lat,
                              ![t].polls = @ + 1]
    /\ UNCHANGED <<prov, vip_address, call, ncalls, allocates_vip, default_pool_id,
                 provider_assoc, provider_name, hap, standalone_vars>>

\* time.sleep(poll_interval)
ThreadSleep(t) ==
    /\ task[t].pc = "sleep"
    /\ task' = [task EXCEPT ![t].pc = "run",
                            ![t].elapsed = @ + request_poll_interval]
    /\ UNCHANGED <<prov, vip_address, call, ncalls, allocates_vip, default_pool_id,
                 provider_assoc, provider_name, hap, standalone_vars>>

\* the loop condition fails: the code after the loop
ThreadTimeout(t) ==
    /\ task[t].pc = "run"
    /\ ~keeps_polling(task[t].elapsed)
    /\ task' = [task EXCEPT ![t].pc = "done", ![t].fail = @ + 1]
    /\ prov' = failed_completion(prov, task[t].id)
    /\ UNCHANGED <<vip_address, call, ncalls, allocates_vip, default_pool_id,
                 provider_assoc, provider_name, hap, standalone_vars>>

\* the wall clock keeps running for an operation whose thread has died
ClockAfterDeath(t) ==
    /\ task[t].pc = "dead"
    /\ task[t].elapsed <= request_poll_timeout + request_poll_interval
    /\ task' = [task EXCEPT ![t].elapsed = @ + 1]
    /\ UNCHANGED <<prov, vip_address, call, ncalls, allocates_vip, default_pool_id,
                 provider_assoc, provider_name, hap, standalone_vars>>

\* a finished thread is gone
ThreadExit(t) ==
    /\ task[t].pc = "done"
    /\ task' = [task EXCEPT ![t] = IdleTask]
    /\ UNCHANGED <<prov, vip_address, call, ncalls, allocates_vip, default_pool_id,
                 provider_assoc, provider_name, hap, standalone_vars>>

(* ------------------------------------------------------------------ *)
(* The haproxy namespace driver: the delete of each manager             *)
(* ------------------------------------------------------------------ *)
MaxListeners == 2
MaxMembers == 2
ListenerIds == {"ls1", "ls2", "ls3"}
MemberIds == {"m1", "m2"}

\* lists without repeated ids, up to a length
IdLists(S, n) ==
    {q \in UNION {[1..k -> S] : k \in 0..n} :
        \A i, j \in 1..Len(q) : q[i] = q[j] => i = j}

None == 0

\* the for loop of _remove_listener / _remove_member: the index of the last
\* entry with the id (counted from 1 here), None when there is no such entry
index_to_remove(list, id) ==
    IF \E i \in 1..Len(list) : list[i] = id
    THEN CHOOSE i \in 1..Len(list) :
            list[i] = id /\ \A j \in (i + 1)..Len(list) : list[j] # id
    ELSE None

\* list.pop(index): TypeError when the index is None
pop(list, index) ==
    IF index = None
    THEN [raised |-> "TypeError", list |-> list]
    ELSE [raised |-> "none",
          list |-> [i \in 1..(Len(list) - 1) |->
                      IF i < index THEN list[i] ELSE list[i + 1]]]

HapIdle == [exists |-> FALSE, listeners |-> <<>>, members |-> <<>>,
            op |-> "none", raised |-> "none", deployed |-> "none"]

\* HaproxyNSDriver.undeploy_instance
undeploy_instance(h) == [h EXCEPT !.exists = FALSE]

\* HaproxyNSDriver.deployable: the load balancer is admin-up and not
\* PENDING_DELETE and has a listener that is admin-up and not PENDING_DELETE
deployable(loadbalancer) ==
    LET acceptable_listeners ==
            {i \in 1..Len(loadbalancer.listeners) :
                /\ loadbalancer.listeners[i].provisioning_status
                      # PENDING_DELETE
                /\ loadbalancer.listeners[i].admin_state_up}
    IN /\ acceptable_listeners # {}
       /\ loadbalancer.admin_state_up
       /\ loadbalancer.provisioning_status # PENDING_DELETE

\* a refresh that never undeploys
refresh_deploy_only(h, is_deployable) ==
    IF is_deployable THEN [h EXCEPT !.exists = TRUE] ELSE h

\* LoadBalancerManager.refresh: deploy_instance spawns the instance of a
\* deployable load balancer (update when it exists, create when not) and
\* returns False for one that is not, whose instance, when it exists, is
\* then undeployed
refresh(h, is_deployable) ==
    IF is_deployable THEN [h EXCEPT !.exists = TRUE]
    ELSE IF h.exists THEN undeploy_instance(h)
    ELSE h

\* LoadBalancerManager.update: refresh of the load balancer read back from
\* the plugin
HapLoadBalancerUpdate ==
    /\ \E loadbalancer \in
            [admin_state_up : BOOLEAN,
             provisioning_status : {ACTIVE, PENDING_UPDATE, PENDING_DELETE},
             listeners : UNION {[1..n ->
                            [admin_state_up : BOOLEAN,
                             provisioning_status : {ACTIVE, PENDING_DELETE}]] :
                          n \in 0..MaxListeners}] :
         hap' = [refresh(hap, deployable(loadbalancer))
                   EXCEPT !.op = "loadbalancer.update", !.raised = "none",
                          !.deployed = deployable(loadbalancer)]
    /\ UNCHANGED <<prov, vip_address, call, ncalls, task, allocates_vip,
                   default_pool_id, provider_assoc, provider_name, standalone_vars>>

\* LoadBalancerManager.delete
HapLoadBalancerDelete ==
    /\ hap' = [(IF hap.exists THEN undeploy_instance(hap) ELSE hap)
                 EXCEPT !.op = "loadbalancer.delete", !.raised = "none"]
    /\ UNCHANGED <<prov, vip_address, call, ncalls, task, allocates_vip,
                   default_pool_id, provider_assoc, provider_name, standalone_vars>>

\* ListenerManager.delete
HapListenerDelete(listener_id) ==
    /\ \E is_deployable \in BOOLEAN :
         LET r == pop(hap.listeners, index_to_remove(hap.listeners, listener_id))
             h == [hap EXCEPT !.op = "listener.delete", !.raised = r.raised,
                              !.listeners = r.list]
         IN hap' = IF r.raised # "none" THEN h
                   ELSE IF Len(r.list) > 0 THEN refresh(h, is_deployable)
                   ELSE undeploy_instance(h)
    /\ UNCHANGED <<prov, vip_address, call, ncalls, task, allocates_vip,
                   default_pool_id, provider_assoc, provider_name, standalone_vars>>

\* MemberManager.delete
HapMemberDelete(member_id) ==
    /\ \E is_deployable \in BOOLEAN :
         LET r == pop(hap.members, index_to_remove(hap.members, member_id))
             h == [hap EXCEPT !.op = "member.delete", !.raised = r.raised,
                              !.members = r.list]
         IN hap' = IF r.raised # "none" THEN h
                   ELSE refresh(h, is_deployable)
    /\ UNCHANGED <<prov, vip_address, call, ncalls, task, allocates_vip,
                   default_pool_id, provider_assoc, provider_name, standalone_vars>>

(* ------------------------------------------------------------------ *)
(* statuses(): the status tree of one load balancer                      *)
(* ------------------------------------------------------------------ *)
ONLINE == "ONLINE"
OFFLINE == "OFFLINE"
NO_MONITOR == "NO_MONITOR"
DEGRADED == "DEGRADED"
DISABLED == "DISABLED"

\* the columns of a row that statuses() reads
Nodes ==
    [present : {TRUE}, admin_state_up : BOOLEAN,
     provisioning_status : {ACTIVE, ERROR},
     operating_status : {ONLINE, NO_MONITOR, OFFLINE}]
AbsentNode ==
    [present |-> FALSE, admin_state_up |-> TRUE,
     provisioning_status |-> ACTIVE, operating_status |-> ONLINE]
\* a load balancer with at most one listener, one pool (the listener's
\* default pool when attached), one member and one health monitor
Trees ==
    {t \in [lb : Nodes, listener : Nodes \cup {AbsentNode},
            pool : Nodes \cup {AbsentNode}, attached : BOOLEAN,
            member : Nodes \cup {AbsentNode},
            healthmonitor : {n \in Nodes : n.operating_status = ONLINE}
                              \cup {AbsentNode}] :
        /\ t.attached => (t.listener.present /\ t.pool.present)
        /\ ~t.pool.present => (~t.member.present /\ ~t.healthmonitor.present)}

\* _is_degraded
is_degraded(obj, exclude_operating_status) ==
    \/ obj.provisioning_status = ERROR
    \/ /\ ~exclude_operating_status
       /\ obj.operating_status # ONLINE
       /\ obj.operating_status # NO_MONITOR

\* the operating_status entries of the report, "absent" for an entry that
\* is not in it, and what statuses() raised
NoReport ==
    [raised |-> "none", loadbalancer |-> "absent", listener |-> "absent",
     pool |-> "absent", member |-> "absent"]

\* _set_degraded(*objects) on the named entries of the report
set_degraded(report, objects) ==
    [k \in DOMAIN report |->
        IF k \in objects THEN DEGRADED ELSE report[k]]

\* _disable_entity_and_children(lb)
disable_entity_and_children(t) ==
    [NoReport EXCEPT
        !.loadbalancer = DISABLED,
        !.listener = IF t.listener.present THEN DISABLED ELSE "absent",
        !.pool = IF t.attached THEN DISABLED ELSE "absent",
        !.member = IF t.attached /\ t.member.present THEN DISABLED
                   ELSE "absent"]

\* the member loop of either pool loop
statuses_members(t, r, ancestors) ==
    IF ~t.member.present THEN r
    ELSE IF ~t.member.admin_state_up THEN [r EXCEPT !.member = DISABLED]
    ELSE LET r1 == [r EXCEPT !.member = t.member.operating_status]
         IN IF is_degraded(t.member, FALSE)
            THEN set_degraded(r1, ancestors) ELSE r1

\* the loop over lb.listeners, for the one listener; bound says whether
\* listener_status has been assigned, done whether the pool is in
\* lb_status["pools"]
statuses_listeners(t, r) ==
    IF ~t.listener.present THEN [r |-> r, bound |-> FALSE, done |-> FALSE]
    ELSE IF ~t.listener.admin_state_up
    THEN [r |-> [r EXCEPT !.listener = DISABLED,
                          !.pool = IF t.attached THEN DISABLED ELSE @,
                          !.member = IF t.attached /\ t.member.present
                                     THEN DISABLED ELSE @],
          bound |-> FALSE, done |-> FALSE]
    ELSE
    LET r1 == [r EXCEPT !.listener = t.listener.operating_status]
        r2 == IF is_degraded(t.listener, FALSE)
              THEN set_degraded(r1, {"loadbalancer"}) ELSE r1
    IN IF ~t.attached THEN [r |-> r2, bound |-> TRUE, done |-> FALSE]
       ELSE IF ~t.pool.admin_state_up
       THEN [r |-> [r2 EXCEPT !.pool = DISABLED,
                              !.member = IF t.member.present THEN DISABLED
                                         ELSE @],
             bound |-> TRUE, done |-> FALSE]
       ELSE
       LET r3 == [r2 EXCEPT !.pool = t.pool.operating_status]
       IN IF is_degraded(t.pool, FALSE)
          \* self._set_degraded(self, listener_status, lb_status): the
          \* first object is the plugin, which takes no item assignment
          THEN [r |-> [r3 EXCEPT !.raised = "TypeError"],
                bound |-> TRUE, done |-> TRUE]
          ELSE
          LET r4 == statuses_members(t, r3,
                                     {"pool", "listener", "loadbalancer"})
              r5 == IF /\ t.healthmonitor.present
                       /\ t.healthmonitor.admin_state_up
                       /\ is_degraded(t.healthmonitor, TRUE)
                    THEN set_degraded(r4, {"pool", "listener", "loadbalancer"})
                    ELSE r4
          IN [r |-> r5, bound |-> TRUE, done |-> TRUE]

\* the loop over lb.pools, for the one pool when the first loop has not
\* put it into lb_status["pools"]; listener_status and hm_status are the
\* variables the first loop left
statuses_pools(t, r, bound) ==
    IF ~t.pool.present THEN r
    ELSE IF ~t.pool.admin_state_up
    THEN [r EXCEPT !.pool = DISABLED,
                   !.member = IF t.member.present THEN DISABLED ELSE @]
    ELSE
    LET r1 == [r EXCEPT !.pool = t.pool.operating_status]
        r2 == IF is_degraded(t.pool, FALSE)
              THEN set_degraded(r1, {"loadbalancer"}) ELSE r1
        r3 == statuses_members(t, r2, {"pool", "loadbalancer"})
    IN IF ~t.healthmonitor.present THEN r3
       ELSE IF ~t.healthmonitor.admin_state_up
       \* pool_status["healthmonitor"] = hm_status, never assigned
       THEN [r3 EXCEPT !.raised = "UnboundLocalError"]
       ELSE IF is_degraded(t.healthmonitor, TRUE)
       THEN IF bound
            THEN set_degraded(r3, {"pool", "listener", "loadbalancer"})
            ELSE [r3 EXCEPT !.raised = "UnboundLocalError"]
       ELSE r3

\* statuses
statuses(t) ==
    IF ~t.lb.admin_state_up THEN disable_entity_and_children(t)
    ELSE
    LET r0 == [NoReport EXCEPT !.loadbalancer = t.lb.operating_status]
        r1 == IF is_degraded(t.lb, FALSE)
              THEN set_degraded(r0, {"loadbalancer"}) ELSE r0
        first == statuses_listeners(t, r1)
    IN IF first.r.raised # "none" \/ first.done THEN first.r
       ELSE statuses_pools(t, first.r, first.bound)

\* GET /lbaas/loadbalancers/{id}/statuses
Statuses ==
    /\ ~view.asked
    /\ view' = [view EXCEPT !.asked = TRUE, !.report = statuses(view.tree)]
    /\ UNCHANGED <<dispatcher_vars, hap, boot, v1, ns, tls, mgr>>

(* ------------------------------------------------------------------ *)
(* The v1 plugin (LoadBalancerPlugin) with the agent-based driver        *)
(* ------------------------------------------------------------------ *)
MaxAgents == 2

\* the v1 objects an agent reports on; one pool with one vip, one member
\* and one health monitor association is modelled
V1Objs == {"pool", "vip", "member", "health_monitor"}

\* an agent row as the scheduler sees it
AgentStates ==
    [admin_state_up : BOOLEAN, is_agent_down : BOOLEAN,
     has_device_driver : BOOLEAN]

\* get_lbaas_agents(active=True) followed by get_lbaas_agent_candidates
candidates(agents) ==
    {a \in (1..MaxAgents) : /\ agents[a].admin_state_up
                      /\ ~agents[a].is_agent_down
                      /\ agents[a].has_device_driver}

\* LoadBalancerPluginDb.update_status: NotFound for a row that is gone; the
\* description is written when one is passed or one is stored
v1_update_status(v, obj, status, description) ==
    IF v.rows[obj] = NoRow THEN v
    ELSE [v EXCEPT !.rows[obj] = status,
                   !.status_description =
                       IF obj = "pool" THEN description ELSE @]

\* create_pool letting the driver's exception through
create_pool_no_eligible_backend_unhandled(v) ==
    [v EXCEPT !.pc = "done", !.res = "NoEligibleLbaasAgent"]

\* create_pool: the except lb_ext.NoEligibleBackend branch
create_pool_no_eligible_backend(v) ==
    IF v.rows["pool"] = NoRow
    THEN [v EXCEPT !.pc = "done", !.res = "NotFound"]
    ELSE [v1_update_status(v, "pool", ERROR, "No eligible backend")
             EXCEPT !.pc = "done", !.res = "NoEligibleBackend"]

\* create_pool up to the pool row: the two attributes the v1 API requires
V1CreatePool(lb_method, subnet_id) ==
    /\ v1.pc = "idle" /\ v1.rows["pool"] = NoRow
    /\ v1' = IF ~lb_method \/ ~subnet_id
             THEN [v1 EXCEPT !.pc = "done",
                             !.res = "RequiredAttributeNotSpecified"]
             ELSE [v1 EXCEPT !.rows["pool"] = PENDING_CREATE,
                             !.status_description = "",
                             !.told = FALSE, !.pc = "assoc", !.res = "none"]
    /\ UNCHANGED <<dispatcher_vars, hap, boot, view, ns, tls, mgr>>

\* create_pool: add_resource_association
V1AddResourceAssociation ==
    /\ v1.pc = "assoc"
    /\ \E fails \in BOOLEAN :
         v1' = IF fails THEN [v1 EXCEPT !.pc = "done", !.res = "DBError"]
               ELSE [v1 EXCEPT !.assoc = TRUE, !.pc = "driver"]
    /\ UNCHANGED <<dispatcher_vars, hap, boot, view, ns, tls, mgr>>

\* create_pool: AgentDriverBase.create_pool inside the try block
V1DriverCreatePool ==
    /\ v1.pc = "driver"
    /\ IF candidates(v1.agents) = {}
       THEN v1' = create_pool_no_eligible_backend(v1)
       ELSE \E agent \in candidates(v1.agents) :
              v1' = [v1 EXCEPT !.hosting = agent, !.told = TRUE,
                               !.pc = "done", !.res = "OK"]
    /\ UNCHANGED <<dispatcher_vars, hap, boot, view, ns, tls, mgr>>

\* the plugin method has returned or raised
V1Return ==
    /\ v1.pc = "done"
    /\ v1' = [v1 EXCEPT !.pc = "idle", !.res = "none"]
    /\ UNCHANGED <<dispatcher_vars, hap, boot, view, ns, tls, mgr>>

\* create_vip, create_member, create_pool_health_monitor: the row, then the
\* driver, which needs the agent that hosts the pool
V1CreateChild(obj) ==
    /\ v1.pc = "idle" /\ v1.rows["pool"] # NoRow /\ v1.rows[obj] = NoRow
    /\ v1' = [v1 EXCEPT !.rows[obj] = PENDING_CREATE]
    /\ UNCHANGED <<dispatcher_vars, hap, boot, view, ns, tls, mgr>>

\* delete_vip, delete_member, delete_pool_health_monitor with the agent
\* driver: PENDING_DELETE, then the driver removes the row
V1DeleteChild(obj) ==
    /\ v1.pc = "idle" /\ v1.rows[obj] # NoRow
    /\ v1' = [v1 EXCEPT !.rows[obj] = NoRow]
    /\ UNCHANGED <<dispatcher_vars, hap, boot, view, ns, tls, mgr>>

\* delete_pool with the agent driver: PENDING_DELETE, then _delete_db_pool;
\* it is asked for a pool whose create_pool has returned and that has no vip
V1DeletePool ==
    /\ v1.pc = "idle" /\ v1.rows["pool"] # NoRow /\ v1.rows["vip"] = NoRow
    /\ v1' = [v1 EXCEPT !.rows = [o \in V1Objs |-> NoRow],
                        !.status_description = "",
                        !.assoc = FALSE, !.hosting = 0]
    /\ UNCHANGED <<dispatcher_vars, hap, boot, view, ns, tls, mgr>>

\* an agent is disabled or enabled by the admin, or its heartbeat stops or
\* comes back
AgentChanges(a) ==
    /\ \E st \in AgentStates :
         /\ st.has_device_driver = v1.agents[a].has_device_driver
         /\ st # v1.agents[a]
         /\ v1' = [v1 EXCEPT !.agents[a] = st]
    /\ UNCHANGED <<dispatcher_vars, hap, boot, view, ns, tls, mgr>>

\* LoadBalancerCallbacks.update_status without the except clause
callbacks_update_status_raises_not_found(v, obj_type) ==
    IF obj_type \notin V1Objs THEN "Invalid"
    ELSE IF v.rows[obj_type] = NoRow THEN "NotFound"
    ELSE "none"

\* LoadBalancerCallbacks.update_status: what it raises
callbacks_update_status_raises(v, obj_type) ==
    IF obj_type \notin V1Objs THEN "Invalid" ELSE "none"

\* LoadBalancerCallbacks.update_status, called over RPC by an agent that
\* was told about the pool, possibly after the object is gone
CallbacksUpdateStatus(obj_type, status) ==
    /\ v1.told
    /\ LET known == obj_type \in V1Objs
           found == known /\ v1.rows[obj_type] # NoRow
           after == IF found
                    THEN v1_update_status(v1, obj_type, status, "")
                    ELSE v1
       IN v1' = [after EXCEPT !.cb =
                    [obj_type |-> obj_type,
                     raised |-> callbacks_update_status_raises(v1, obj_type),
                     found |-> found]]
    /\ UNCHANGED <<dispatcher_vars, hap, boot, view, ns, tls, mgr>>

(* ------------------------------------------------------------------ *)
(* The haproxy namespace driver: deploy_instance and undeploy_instance  *)
(* under n_utils.synchronized                                           *)
(* ------------------------------------------------------------------ *)
MaxWorkers == 2
Workers == 1..MaxWorkers

\* a lock named after the instance
lock_name_per_instance(loadbalancer_id) == loadbalancer_id

\* the name both decorators pass to synchronized
lock_name(loadbalancer_id) == "haproxy-driver"

\* a green thread of the agent calls one of the two decorated methods
NsCall(w, op, id, is_deployable) ==
    /\ ns.worker[w].pc = "idle"
    /\ op = "undeploy_instance" => ~is_deployable
    /\ ns' = [ns EXCEPT !.worker[w] =
                 [pc |-> "waiting", op |-> op, id |-> id,
                  deployable |-> is_deployable]]
    /\ UNCHANGED <<dispatcher_vars, hap, boot, view, v1, tls, mgr>>

\* synchronized: the named lock is taken when nobody holds it
NsAcquire(w) ==
    /\ ns.worker[w].pc = "waiting"
    /\ lock_name(ns.worker[w].id) \notin ns.held
    /\ ns' = [ns EXCEPT !.worker[w].pc = "in",
                        !.held = @ \cup {lock_name(ns.worker[w].id)}]
    /\ UNCHANGED <<dispatcher_vars, hap, boot, view, v1, tls, mgr>>

\* the body of deploy_instance (deployable, then update or create, both ending
\* in _spawn) or of undeploy_instance (the process is killed, the port of a
\* remembered load balancer unplugged)
NsBody(w) ==
    /\ ns.worker[w].pc = "in"
    /\ LET me == ns.worker[w]
       IN ns' = IF me.op = "deploy_instance"
                THEN IF me.deployable
                     THEN [ns EXCEPT !.worker[w].pc = "ran",
                             !.running = @ \cup {me.id},
                             !.deployed_loadbalancers = @ \cup {me.id}]
                     ELSE [ns EXCEPT !.worker[w].pc = "ran"]
                ELSE [ns EXCEPT !.worker[w].pc = "ran",
                                !.running = @ \ {me.id}]
    /\ UNCHANGED <<dispatcher_vars, hap, boot, view, v1, tls, mgr>>

\* the decorated method returns and the lock is released
NsRelease(w) ==
    /\ ns.worker[w].pc = "ran"
    /\ ns' = [ns EXCEPT !.worker[w] =
                            [pc |-> "idle", op |-> "none", id |-> "none",
                             deployable |-> FALSE],
                        !.held = @ \ {lock_name(ns.worker[w].id)}]
    /\ UNCHANGED <<dispatcher_vars, hap, boot, view, v1, tls, mgr>>

(* ------------------------------------------------------------------ *)
(* _validate_tls and the certificate manager                            *)
(* ------------------------------------------------------------------ *)
MaxSni == 1

\* container references are strings, kept as sequences of characters
RequestRefs == {<<"a">>, <<"a", "b">>}
SniLists == UNION {[1..n -> RequestRefs] : n \in 0..MaxSni}

\* list.extend with a string as argument: one element per character
extend_with_string(ref) == [i \in 1..Len(ref) |-> <<ref[i]>>]

\* the listener of the request body; sni_container_refs may be missing
TlsListeners ==
    [loadbalancer_id : {"lb1"}, tenant_id : {"t1", "t2"},
     default_tls_container_ref : RequestRefs \cup {<<>>},
     has_sni : BOOLEAN, sni_container_refs : SniLists]

\* the stored listener of an update, or None (not present) for a create
CurrListeners ==
    {[present |-> FALSE, loadbalancer_id |-> "none", tenant_id |-> "none",
      provisioning_status |-> "none", default_tls_container_id |-> <<>>,
      sni_containers |-> <<>>]} \cup
    [present : {TRUE}, loadbalancer_id : {"lb1"}, tenant_id : {"t1", "t2"},
     provisioning_status : {ACTIVE, ERROR},
     default_tls_container_id : RequestRefs,
     sni_containers : SniLists]

\* _validate_tls: the containers to validate
to_validate(listener, curr_listener) ==
    IF ~curr_listener.present
    THEN <<listener.default_tls_container_ref>>
         \o (IF listener.has_sni THEN listener.sni_container_refs ELSE <<>>)
    ELSE IF curr_listener.provisioning_status = ERROR
    THEN extend_with_string(curr_listener.default_tls_container_id)
         \o curr_listener.sni_containers
    ELSE (IF curr_listener.default_tls_container_id
               # listener.default_tls_container_ref
          THEN <<listener.default_tls_container_ref>> ELSE <<>>)
         \o (IF listener.has_sni
                /\ curr_listener.sni_containers # listener.sni_container_refs
             THEN listener.sni_container_refs ELSE <<>>)

\* cert_mgr.get_service_url
get_service_url(lb_id) == <<"lbaas/loadbalancers", lb_id>>

\* validate_tls_container raising as soon as validate_cert has failed
validate_cert_failed_no_compensation(t) ==
    [t EXCEPT !.pc = "done", !.res = "TLSContainerInvalid"]

\* validate_tls_container: the except branch around validate_cert starts
\* with delete_cert
validate_cert_failed(t) == [t EXCEPT !.pc = "delete"]

\* _validate_tls up to the first container
ValidateTls(listener, curr_listener) ==
    /\ tls.pc = "idle"
    /\ LET tv == to_validate(listener, curr_listener)
           begun == [tls EXCEPT !.got = <<>>, !.deleted = <<>>]
       IN tls' = IF listener.default_tls_container_ref = <<>>
                 THEN [begun EXCEPT !.pc = "done",
                          !.res = "TLSDefaultContainerNotSpecified"]
                 ELSE IF Len(tv) = 0
                 THEN [begun EXCEPT !.pc = "done", !.res = "False"]
                 ELSE [begun EXCEPT !.pc = "get", !.to_validate = tv, !.i = 1,
                          !.tenant_id = IF curr_listener.present
                                        THEN curr_listener.tenant_id
                                        ELSE listener.tenant_id,
                          !.lb_id = IF curr_listener.present
                                    THEN curr_listener.loadbalancer_id
                                    ELSE listener.loadbalancer_id,
                          !.res = "none"]
    /\ UNCHANGED <<dispatcher_vars, hap, boot, view, v1, ns, mgr>>

\* cert_mgr.get_cert: the consumer is registered and the container returned,
\* or the call raises (with status code 404, or anything else, possibly
\* after the registration)
TlsGetCert ==
    /\ tls.pc = "get"
    /\ LET triple == <<tls.tenant_id, tls.to_validate[tls.i],
                       get_service_url(tls.lb_id)>>
       IN \E outcome \in {"ok", "404", "error"}, registers \in BOOLEAN :
            /\ outcome = "ok" => registers
            /\ outcome = "404" => ~registers
            /\ tls' = [tls EXCEPT
                 !.registered = IF registers THEN @ \cup {triple} ELSE @,
                 !.got = IF outcome = "ok" THEN triple ELSE @,
                 !.pc = IF outcome = "ok" THEN "validate" ELSE "done",
                 !.res = IF outcome = "ok" THEN @
                         ELSE IF outcome = "404" THEN "TLSContainerNotFound"
                         ELSE "CertManagerError"]
    /\ UNCHANGED <<dispatcher_vars, hap, boot, view, v1, ns, mgr>>

\* cert_parser.validate_cert on the fetched container
TlsValidateCert ==
    /\ tls.pc = "validate"
    /\ \E valid \in BOOLEAN :
         tls' = IF ~valid THEN validate_cert_failed(tls)
                ELSE IF tls.i = Len(tls.to_validate)
                THEN [tls EXCEPT !.pc = "done", !.res = "True"]
                ELSE [tls EXCEPT !.pc = "get", !.i = @ + 1]
    /\ UNCHANGED <<dispatcher_vars, hap, boot, view, v1, ns, mgr>>

\* cert_mgr.delete_cert in the except branch, then the raise; a failing
\* delete_cert is what the caller gets instead
TlsDeleteCert ==
    /\ tls.pc = "delete"
    /\ LET triple == <<tls.tenant_id, tls.to_validate[tls.i],
                       get_service_url(tls.lb_id)>>
       IN \E fails \in BOOLEAN :
            tls' = IF fails
                   THEN [tls EXCEPT !.pc = "done", !.res = "Exception"]
                   ELSE [tls EXCEPT !.registered = @ \ {triple},
                                    !.deleted = triple,
                                    !.pc = "done",
                                    !.res = "TLSContainerInvalid"]
    /\ UNCHANGED <<dispatcher_vars, hap, boot, view, v1, ns, mgr>>

\* _validate_tls has returned or raised
TlsReturn ==
    /\ tls.pc = "done"
    /\ tls' = [tls EXCEPT !.pc = "idle", !.to_validate = <<>>, !.i = 0,
                          !.tenant_id = "none", !.lb_id = "none"]
    /\ UNCHANGED <<dispatcher_vars, hap, boot, view, v1, ns, mgr>>

(* ------------------------------------------------------------------ *)
(* Service start-up: the orphan checks of _load_drivers                  *)
(* ------------------------------------------------------------------ *)
MaxStored == 2

\* what the stored rows can carry as provider: create_loadbalancer writes
\* the row and the association one after the other
StoredLists(version) ==
    UNION {[1..k -> IF version = "v2" THEN ProviderNames \cup {NoProvider}
                    ELSE ProviderNames] : k \in 0..MaxStored}

\* the set comprehension of both checks
lost_providers(stored, provider_names) ==
    {stored[i] : i \in {j \in 1..Len(stored) : stored[j] \notin provider_names}}

\* _check_orphan_loadbalancer_associations; lb.provider.provider_name is
\* evaluated for every stored load balancer
check_orphan_loadbalancer_associations(stored, provider_names) ==
    IF \E i \in 1..Len(stored) : stored[i] = NoProvider THEN "AttributeError"
    ELSE IF lost_providers(stored, provider_names) # {} THEN "SystemExit"
    ELSE "ok"

\* _check_orphan_pool_associations
check_orphan_pool_associations(stored, provider_names) ==
    IF lost_providers(stored, provider_names) # {} THEN "SystemExit" ELSE "ok"

(* ------------------------------------------------------------------ *)
(* The agent (LbaasAgentManager) and its device driver                  *)
(* ------------------------------------------------------------------ *)
MaxFailures == 2
PoolIds == {"pA", "pB"}
NoDriver == "none"

\* self.device_drivers: the names of the drivers the agent has loaded
device_drivers == {"haproxy_ns"}

\* plugin_rpc.get_ready_devices: the pools hosted on the agent that are
\* admin-up with status ACTIVE, PENDING_CREATE or PENDING_UPDATE; ready
\* gives each of them the name of its driver
ready_instances(m) == {p \in PoolIds : m.ready[p] # NoDriver}

\* set(self.instance_mapping.keys())
known_instances(m) == {p \in PoolIds : m.instance_mapping[p] # NoDriver}

\* what the last handler did: the status reports it sent with
\* plugin_rpc.update_status and the instances it had the driver undeploy
NoLast ==
    [op |-> "none", obj |-> "none", raised |-> "none",
     admin_state_up |-> TRUE, reports |-> <<>>, undeployed |-> {}]

\* _destroy_pool; outcome names the call that raises
destroy_pool(m, pool_id, outcome) ==
    IF outcome = "undeploy_instance"
    THEN [m EXCEPT !.needs_resync = TRUE]
    ELSE [m EXCEPT !.instances = @ \ {pool_id},
                   !.last.undeployed = @ \cup {pool_id},
                   !.instance_mapping[pool_id] = NoDriver,
                   !.needs_resync = @ \/ outcome = "pool_destroyed"]

\* _reload_pool; outcome names the call that raises
reload_pool(m, pool_id, outcome) ==
    IF outcome = "get_logical_device"
    THEN [m EXCEPT !.needs_resync = TRUE]
    ELSE IF m.ready[pool_id] \notin device_drivers
    THEN [m EXCEPT !.last.reports = Append(@, ERROR),
                   !.ready[pool_id] = NoDriver]
    ELSE IF outcome = "deploy_instance"
    THEN [m EXCEPT !.needs_resync = TRUE]
    ELSE [m EXCEPT !.instances = @ \cup {pool_id},
                   !.instance_mapping[pool_id] = m.ready[pool_id],
                   !.needs_resync = @ \/ outcome = "pool_deployed"]

\* the two for loops of sync_state
RECURSIVE destroy_each(_, _, _)
destroy_each(m, pool_ids, outcome) ==
    IF pool_ids = {} THEN m
    ELSE LET deleted_id == CHOOSE p \in pool_ids : TRUE
         IN destroy_each(destroy_pool(m, deleted_id, outcome[deleted_id]),
                         pool_ids \ {deleted_id}, outcome)
RECURSIVE reload_each(_, _, _)
reload_each(m, pool_ids, outcome) ==
    IF pool_ids = {} THEN m
    ELSE LET pool_id == CHOOSE p \in pool_ids : TRUE
         IN reload_each(reload_pool(m, pool_id, outcome[pool_id]),
                        pool_ids \ {pool_id}, outcome)

\* LbaasAgentManager.remove_orphans with HaproxyNSDriver.remove_orphans:
\* every instance found in the state path whose id the agent does not map
\* to the driver is undeployed
remove_orphans(m) ==
    LET orphans == m.instances \ known_instances(m)
    IN [m EXCEPT !.instances = @ \ orphans,
                 !.last.undeployed = @ \cup orphans]

\* sync_state; ready_ok says whether get_ready_devices returns
sync_state(m, ready_ok, destroy_outcome, reload_outcome) ==
    LET ready == ready_instances(m)
        synced ==
            IF ~ready_ok THEN [m EXCEPT !.needs_resync = TRUE]
            ELSE reload_each(destroy_each(m, known_instances(m) \ ready,
                                          destroy_outcome),
                             ready, reload_outcome)
    IN remove_orphans(synced)

\* a run of sync_state from m, with the calls that raise in it
SyncState(m) ==
    \E ready_ok \in BOOLEAN,
       destroy_outcome \in
           [PoolIds -> {"ok", "undeploy_instance", "pool_destroyed"}],
       reload_outcome \in
           [PoolIds -> {"ok", "get_logical_device", "deploy_instance",
                        "pool_deployed"}] :
       LET ready == ready_instances(m)
           deleted == known_instances(m) \ ready
           raising == IF ~ready_ok THEN 1
                      ELSE Cardinality({p \in PoolIds :
                                          destroy_outcome[p] # "ok"})
                           + Cardinality({p \in PoolIds :
                                            reload_outcome[p] # "ok"})
       IN /\ \A p \in PoolIds :
                /\ (~ready_ok \/ p \notin deleted) => destroy_outcome[p] = "ok"
                /\ (~ready_ok \/ p \notin ready) => reload_outcome[p] = "ok"
                /\ m.ready[p] \notin device_drivers
                     => reload_outcome[p] \in {"ok", "get_logical_device"}
          /\ m.failures + raising <= MaxFailures
          /\ mgr' = [sync_state([m EXCEPT !.last.op = "sync_state"],
                                ready_ok, destroy_outcome, reload_outcome)
                       EXCEPT !.failures = @ + raising]

\* initialize_service_hook
InitializeServiceHook ==
    /\ ~mgr.started
    /\ SyncState([mgr EXCEPT !.started = TRUE, !.last = NoLast])
    /\ UNCHANGED <<dispatcher_vars, hap, boot, view, v1, ns, tls>>

\* periodic_resync with the flag set
PeriodicResync ==
    /\ mgr.started /\ mgr.needs_resync
    /\ SyncState([mgr EXCEPT !.needs_resync = FALSE, !.last = NoLast])
    /\ UNCHANGED <<dispatcher_vars, hap, boot, view, v1, ns, tls>>

\* collect_stats; failed are the pools whose statistics call raises
CollectStats ==
    /\ mgr.started
    /\ \E failed \in SUBSET known_instances(mgr) :
         /\ mgr.failures + Cardinality(failed) <= MaxFailures
         /\ mgr' = [mgr EXCEPT !.needs_resync = @ \/ failed # {},
                               !.failures = @ + Cardinality(failed),
                               !.last = [NoLast EXCEPT
                                           !.op = "collect_stats"]]
    /\ UNCHANGED <<dispatcher_vars, hap, boot, view, v1, ns, tls>>

\* _handle_failed_driver_call and _update_status: the status a handler
\* reports for its object
reported_status(raised, admin_state_up) ==
    IF raised THEN ERROR ELSE IF admin_state_up THEN ACTIVE ELSE DISABLED

\* create_pool: the server has stored a pool for this agent; the pool is
\* ready when it is admin-up and has been reported ACTIVE
AgentCreatePool(pool_id, driver_name, admin_state_up, raised) ==
    /\ mgr.started
    /\ mgr.ready[pool_id] = NoDriver
    /\ mgr.instance_mapping[pool_id] = NoDriver
    /\ raised => driver_name \in device_drivers
    /\ LET loaded == driver_name \in device_drivers
           last == [NoLast EXCEPT
                      !.op = "create", !.obj = "pool",
                      !.admin_state_up = admin_state_up,
                      !.raised = IF ~loaded THEN "no device driver"
                                 ELSE IF raised THEN "driver" ELSE "none",
                      !.reports =
                          <<reported_status(~loaded \/ raised,
                                            admin_state_up)>>]
       IN mgr' = IF loaded /\ ~raised
                 THEN [mgr EXCEPT !.instance_mapping[pool_id] = driver_name,
                                  !.ready[pool_id] =
                                      IF admin_state_up THEN driver_name
                                      ELSE NoDriver,
                                  !.last = last]
                 ELSE [mgr EXCEPT !.last = last]
    /\ UNCHANGED <<dispatcher_vars, hap, boot, view, v1, ns, tls>>

\* create_vip, update_vip, update_pool, create_member, update_member,
\* create_pool_health_monitor, update_pool_health_monitor for an object of
\* a pool the server holds for this agent: _get_driver, the driver call in
\* a try block, one status report in the except or the else branch; a pool
\* reported ERROR or DISABLED is not ready any more
AgentCreateOrUpdate(verb, obj_type, pool_id, admin_state_up, raised) ==
    /\ mgr.started
    /\ mgr.ready[pool_id] # NoDriver
    /\ verb = "create" => obj_type # "pool"
    /\ LET found == mgr.instance_mapping[pool_id] # NoDriver
       IN /\ raised => found
          /\ mgr' = [mgr EXCEPT
                !.ready[pool_id] =
                    IF obj_type = "pool" /\ found
                       /\ reported_status(raised, admin_state_up) # ACTIVE
                    THEN NoDriver ELSE @,
                !.last =
                [NoLast EXCEPT
                   !.op = verb, !.obj = obj_type,
                   !.admin_state_up = admin_state_up,
                   !.raised = IF ~found THEN "DeviceNotFoundOnAgent"
                              ELSE IF raised THEN "driver" ELSE "none",
                   !.reports =
                       IF found
                       THEN <<reported_status(raised, admin_state_up)>>
                       ELSE <<>>]]
    /\ UNCHANGED <<dispatcher_vars, hap, boot, view, v1, ns, tls>>

\* delete_pool: the server has marked the pool for deletion, so that it is
\* not ready any more; the mapping entry goes when the driver has returned
AgentDeletePool(pool_id, raised) ==
    /\ mgr.started
    /\ mgr.ready[pool_id] # NoDriver
    /\ LET found == mgr.instance_mapping[pool_id] # NoDriver
           last == [NoLast EXCEPT
                      !.op = "delete", !.obj = "pool",
                      !.raised = IF ~found THEN "DeviceNotFoundOnAgent"
                                 ELSE IF raised THEN "driver" ELSE "none"]
       IN /\ raised => found
          /\ mgr' = IF found /\ ~raised
                    THEN [mgr EXCEPT !.ready[pool_id] = NoDriver,
                                     !.instances = @ \ {pool_id},
                                     !.instance_mapping[pool_id] = NoDriver,
                                     !.last = last]
                    ELSE [mgr EXCEPT !.ready[pool_id] = NoDriver,
                                     !.last = last]
    /\ UNCHANGED <<dispatcher_vars, hap, boot, view, v1, ns, tls>>

\* the parts of the service that a specification leaves alone, as they are
\* before anything has run
Idle ==
    [boot |-> [version |-> "v2", stored |-> <<>>, provider_names |-> {},
               result |-> "none"],
     view |-> [tree |-> [lb |-> AbsentNode, listener |-> AbsentNode,
                         pool |-> AbsentNode, attached |-> FALSE,
                         member |-> AbsentNode, healthmonitor |-> AbsentNode],
               asked |-> FALSE, report |-> NoReport],
     v1 |-> [rows |-> [o \in V1Objs |-> NoRow],
             status_description |-> "",
             assoc |-> FALSE, hosting |-> 0, told |-> FALSE,
             agents |-> [a \in 1..MaxAgents |->
                           [admin_state_up |-> TRUE, is_agent_down |-> FALSE,
                            has_device_driver |-> TRUE]],
             pc |-> "idle", res |-> "none",
             cb |-> [obj_type |-> "none", raised |-> "none",
                     found |-> FALSE]],
     ns |-> [worker |-> [w \in Workers |->
                           [pc |-> "idle", op |-> "none", id |-> "none",
                            deployable |-> FALSE]],
             held |-> {}, running |-> {}, deployed_loadbalancers |-> {}],
     tls |-> [pc |-> "idle", to_validate |-> <<>>, i |-> 0,
              tenant_id |-> "none", lb_id |-> "none",
              registered |-> {}, got |-> <<>>, deleted |-> <<>>,
              res |-> "none"],
     mgr |-> [ready |-> [p \in PoolIds |-> NoDriver],
              instances |-> {},
              instance_mapping |-> [p \in PoolIds |-> NoDriver],
              needs_resync |-> FALSE, started |-> FALSE, failures |-> 0,
              last |-> NoLast]]

\* LoadBalancerPluginv2._load_drivers reaches its orphan check
CheckOrphanLoadbalancers ==
    /\ boot.version = "v2" /\ boot.result = "none"
    /\ boot' = [boot EXCEPT !.result =
                  check_orphan_loadbalancer_associations(boot.stored,
                                                         boot.provider_names)]
    /\ UNCHANGED <<dispatcher_vars, hap, view, v1, ns, tls, mgr>>

\* LoadBalancerPlugin._load_drivers reaches its orphan check
CheckOrphanPools ==
    /\ boot.version = "v1" /\ boot.result = "none"
    /\ boot' = [boot EXCEPT !.result =
                  check_orphan_pool_associations(boot.stored,
                                                 boot.provider_names)]
    /\ UNCHANGED <<dispatcher_vars, hap, view, v1, ns, tls, mgr>>

Init ==
    /\ prov = [x \in Ids |-> NoRow]
    /\ vip_address = ""
    /\ call = [c \in Callers |-> IdleCall]
    /\ ncalls = 0
    /\ task = [t \in TaskIds |-> IdleTask]
    /\ allocates_vip = FALSE
    /\ default_pool_id = ""
    /\ provider_assoc = FALSE
    /\ provider_name = NoProvider
    /\ hap = HapIdle
    /\ boot = Idle.boot
    /\ view = Idle.view
    /\ v1 = Idle.v1
    /\ ns = Idle.ns
    /\ tls = Idle.tls
    /\ mgr = Idle.mgr

Next ==
    \/ \E c \in Callers, verb \in Verbs, id \in Ids :
          \E req \in Requests(verb, id) : Begin(c, verb, id, req)
    \/ \E c \in Callers : TestAndSet(c)
    \/ \E c \in Callers : DbWrite(c)
    \/ \E c \in Callers : AddResourceAssociation(c)
    \/ \E c \in Callers : UpdateListeners(c)
    \/ \E c \in Callers : CallDriverSync(c)
    \/ \E c \in Callers : Return(c)

Spec == Init /\ [][Next]_vars

\* the same dispatcher in front of the Octavia driver, used by one client
AsyncCallers == {"c1"}

BeginAsync(c, verb, id, req) == ncalls < MaxAsyncCalls /\ Begin(c, verb, id, req)

InitAsync ==
    /\ prov = [x \in Ids |-> NoRow]
    /\ vip_address = ""
    /\ call = [c \in Callers |-> IdleCall]
    /\ ncalls = 0
    /\ task = [t \in TaskIds |-> IdleTask]
    /\ allocates_vip \in BOOLEAN
    /\ default_pool_id = ""
    /\ provider_assoc = FALSE
    /\ provider_name = NoProvider
    /\ hap = HapIdle
    /\ boot = Idle.boot
    /\ view = Idle.view
    /\ v1 = Idle.v1
    /\ ns = Idle.ns
    /\ tls = Idle.tls
    /\ mgr = Idle.mgr

NextAsync ==
    \/ \E c \in AsyncCallers, verb \in Verbs, id \in Ids :
          \E req \in Requests(verb, id) : BeginAsync(c, verb, id, req)
    \/ \E c \in AsyncCallers : TestAndSet(c)
    \/ \E c \in AsyncCallers : DbWrite(c)
    \/ \E c \in AsyncCallers : AddResourceAssociation(c)
    \/ \E c \in AsyncCallers : UpdateListeners(c)
    \/ \E c \in AsyncCallers : CallDriverAsync(c)
    \/ \E c \in AsyncCallers : Return(c)
    \/ \E t \in TaskIds : ThreadPoll(t)
    \/ \E t \in TaskIds : ThreadPollRaises(t)
    \/ \E t \in TaskIds : ThreadSleep(t)
    \/ \E t \in TaskIds : ThreadTimeout(t)
    \/ \E t \in TaskIds : ClockAfterDeath(t)
    \/ \E t \in TaskIds : ThreadExit(t)

SpecAsync == InitAsync /\ [][NextAsync]_vars

\* the haproxy namespace driver on its own: an instance that is running or
\* not, and the listener and member lists of the objects handed to delete
InitHaproxy ==
    /\ prov = [x \in Ids |-> NoRow]
    /\ vip_address = ""
    /\ call = [c \in Callers |-> IdleCall]
    /\ ncalls = 0
    /\ task = [t \in TaskIds |-> IdleTask]
    /\ allocates_vip = FALSE
    /\ default_pool_id = ""
    /\ provider_assoc = FALSE
    /\ provider_name = NoProvider
    /\ \E e \in BOOLEAN, ls \in IdLists(ListenerIds, MaxListeners),
          ms \in IdLists(MemberIds, MaxMembers) :
          hap = [HapIdle EXCEPT !.exists = e, !.listeners = ls, !.members = ms]
    /\ boot = Idle.boot
    /\ view = Idle.view
    /\ v1 = Idle.v1
    /\ ns = Idle.ns
    /\ tls = Idle.tls
    /\ mgr = Idle.mgr

NextHaproxy ==
    \/ HapLoadBalancerDelete
    \/ HapLoadBalancerUpdate
    \/ \E id \in ListenerIds : HapListenerDelete(id)
    \/ \E id \in MemberIds : HapMemberDelete(id)

SpecHaproxy == InitHaproxy /\ [][NextHaproxy]_vars

\* the plugin is constructed over a database and a configuration
InitStartup ==
    /\ prov = [x \in Ids |-> NoRow]
    /\ vip_address = ""
    /\ call = [c \in Callers |-> IdleCall]
    /\ ncalls = 0
    /\ task = [t \in TaskIds |-> IdleTask]
    /\ allocates_vip = FALSE
    /\ default_pool_id = ""
    /\ provider_assoc = FALSE
    /\ provider_name = NoProvider
    /\ hap = HapIdle
    /\ \E v \in {"v1", "v2"} :
          \E st \in StoredLists(v), names \in (SUBSET ProviderNames) \ {{}} :
             boot = [Idle.boot EXCEPT !.version = v, !.stored = st,
                                     !.provider_names = names]
    /\ view = Idle.view
    /\ v1 = Idle.v1
    /\ ns = Idle.ns
    /\ tls = Idle.tls
    /\ mgr = Idle.mgr

NextStartup ==
    \/ CheckOrphanLoadbalancers
    \/ CheckOrphanPools

SpecStartup == InitStartup /\ [][NextStartup]_vars

\* statuses() asked of a stored tree
InitStatuses ==
    /\ prov = [x \in Ids |-> NoRow]
    /\ vip_address = ""
    /\ call = [c \in Callers |-> IdleCall]
    /\ ncalls = 0
    /\ task = [t \in TaskIds |-> IdleTask]
    /\ allocates_vip = FALSE
    /\ default_pool_id = ""
    /\ provider_assoc = FALSE
    /\ provider_name = NoProvider
    /\ hap = HapIdle
    /\ boot = Idle.boot
    /\ \E t \in Trees : view = [Idle.view EXCEPT !.tree = t]
    /\ v1 = Idle.v1
    /\ ns = Idle.ns
    /\ tls = Idle.tls
    /\ mgr = Idle.mgr

NextStatuses == Statuses

SpecStatuses == InitStatuses /\ [][NextStatuses]_vars

\* the v1 plugin over an empty database and some registered agents
InitV1 ==
    /\ prov = [x \in Ids |-> NoRow]
    /\ vip_address = ""
    /\ call = [c \in Callers |-> IdleCall]
    /\ ncalls = 0
    /\ task = [t \in TaskIds |-> IdleTask]
    /\ allocates_vip = FALSE
    /\ default_pool_id = ""
    /\ provider_assoc = FALSE
    /\ provider_name = NoProvider
    /\ hap = HapIdle
    /\ boot = Idle.boot
    /\ view = Idle.view
    /\ \E ag \in [(1..MaxAgents) -> AgentStates] : v1 = [Idle.v1 EXCEPT !.agents = ag]
    /\ ns = Idle.ns
    /\ tls = Idle.tls
    /\ mgr = Idle.mgr

NextV1 ==
    \/ \E lb_method \in BOOLEAN, subnet_id \in BOOLEAN :
          V1CreatePool(lb_method, subnet_id)
    \/ V1AddResourceAssociation
    \/ V1DriverCreatePool
    \/ V1Return
    \/ \E obj \in (V1Objs \ {"pool"}) : V1CreateChild(obj)
    \/ \E obj \in (V1Objs \ {"pool"}) : V1DeleteChild(obj)
    \/ V1DeletePool
    \/ \E a \in (1..MaxAgents) : AgentChanges(a)
    \/ \E obj_type \in V1Objs \cup {"unknown"}, status \in {ACTIVE, ERROR} :
          CallbacksUpdateStatus(obj_type, status)

SpecV1 == InitV1 /\ [][NextV1]_vars

\* the agent's haproxy driver with nothing deployed
InitNs ==
    /\ prov = [x \in Ids |-> NoRow]
    /\ vip_address = ""
    /\ call = [c \in Callers |-> IdleCall]
    /\ ncalls = 0
    /\ task = [t \in TaskIds |-> IdleTask]
    /\ allocates_vip = FALSE
    /\ default_pool_id = ""
    /\ provider_assoc = FALSE
    /\ provider_name = NoProvider
    /\ hap = HapIdle
    /\ boot = Idle.boot
    /\ view = Idle.view
    /\ v1 = Idle.v1
    /\ ns = Idle.ns
    /\ tls = Idle.tls
    /\ mgr = Idle.mgr

NextNs ==
    \/ \E w \in Workers, op \in {"deploy_instance", "undeploy_instance"},
          id \in {"lbA", "lbB"}, is_deployable \in BOOLEAN :
          NsCall(w, op, id, is_deployable)
    \/ \E w \in Workers : NsAcquire(w)
    \/ \E w \in Workers : NsBody(w)
    \/ \E w \in Workers : NsRelease(w)

SpecNs == InitNs /\ [][NextNs]_vars

\* the dispatcher before any TLS listener was validated
InitTls ==
    /\ prov = [x \in Ids |-> NoRow]
    /\ vip_address = ""
    /\ call = [c \in Callers |-> IdleCall]
    /\ ncalls = 0
    /\ task = [t \in TaskIds |-> IdleTask]
    /\ allocates_vip = FALSE
    /\ default_pool_id = ""
    /\ provider_assoc = FALSE
    /\ provider_name = NoProvider
    /\ hap = HapIdle
    /\ boot = Idle.boot
    /\ view = Idle.view
    /\ v1 = Idle.v1
    /\ ns = Idle.ns
    /\ tls = Idle.tls
    /\ mgr = Idle.mgr

NextTls ==
    \/ \E listener \in TlsListeners,
          curr_listener \in CurrListeners :
          ValidateTls(listener, curr_listener)
    \/ TlsGetCert
    \/ TlsValidateCert
    \/ TlsDeleteCert
    \/ TlsReturn

SpecTls == InitTls /\ [][NextTls]_vars

\* the agent on its own, constructed and about to start: the server holds
\* some pools ready for it, and the state path holds the instances that an
\* earlier run of the agent left
InitAgent ==
    /\ prov = [x \in Ids |-> NoRow]
    /\ vip_address = ""
    /\ call = [c \in Callers |-> IdleCall]
    /\ ncalls = 0
    /\ task = [t \in TaskIds |-> IdleTask]
    /\ allocates_vip = FALSE
    /\ default_pool_id = ""
    /\ provider_assoc = FALSE
    /\ provider_name = NoProvider
    /\ hap = HapIdle
    /\ boot = Idle.boot
    /\ view = Idle.view
    /\ v1 = Idle.v1
    /\ ns = Idle.ns
    /\ tls = Idle.tls
    /\ \E ready \in [PoolIds -> device_drivers \cup {"other", NoDriver}],
          instances \in SUBSET PoolIds :
          mgr = [Idle.mgr EXCEPT !.ready = ready, !.instances = instances]

NextAgent ==
    \/ InitializeServiceHook
    \/ PeriodicResync
    \/ CollectStats
    \/ \E pool_id \in PoolIds, driver_name \in device_drivers \cup {"other"},
          admin_state_up \in BOOLEAN, raised \in BOOLEAN :
          AgentCreatePool(pool_id, driver_name, admin_state_up, raised)
    \/ \E verb \in {"create", "update"},
          obj_type \in {"vip", "pool", "member", "health_monitor"},
          pool_id \in PoolIds, admin_state_up \in BOOLEAN,
          raised \in BOOLEAN :
          AgentCreateOrUpdate(verb, obj_type, pool_id, admin_state_up, raised)
    \/ \E pool_id \in PoolIds, raised \in BOOLEAN :
          AgentDeletePool(pool_id, raised)

\* the service starts and the periodic task keeps being run
SpecAgent ==
    /\ InitAgent /\ [][NextAgent]_vars
    /\ WF_vars(InitializeServiceHook) /\ WF_vars(PeriodicResync)

TypeOK ==
    /\ prov \in [Ids -> Status \cup {NoRow}]
    /\ vip_address \in Vips
    /\ default_pool_id \in {"", "p1"}
    /\ provider_assoc \in BOOLEAN
    /\ provider_name \in ProviderNames \cup {NoProvider}
    /\ hap.exists \in BOOLEAN

(* ------------------------------------------------------------------ *)
(* Properties                                                           *)
(* ------------------------------------------------------------------ *)
Mutating == {"update", "delete"}
Terminal(id) == prov[id] \notin Pending
DriverReturns(c) == call[c].pc = "driver" /\ call'[c].pc = "done"
Live(t) == task[t].pc \in {"run", "sleep"}
Callbacks(t) == task[t].succ + task[t].fail
TerminalReports == {ACTIVE, DELETED, ERROR}

\* C1: when a plugin call that reached a driver_op-wrapped manager method
\* returns or raises, the provisioning status of the resource it targeted is
\* not PENDING_CREATE, PENDING_UPDATE or PENDING_DELETE, whether the driver
\* succeeded or raised.
C1_NoPendingAfterSyncCall ==
    [][\A c \in Callers :
          DriverReturns(c) => prov'[call[c].tgt] \notin Pending]_vars

C1_Witness ==
    \E c \in Callers :
        /\ call[c].pc = "done" /\ call[c].res = "DriverError"
        /\ call[c].verb = "update" /\ call[c].tgt = "p1"
        /\ prov["p1"] = ERROR

C10_DeletePoolInUse ==
    [][\A c \in Callers :
          (/\ call[c].pc = "idle" /\ call'[c].pc # "idle"
           /\ call'[c].verb = "delete" /\ call'[c].tgt = "p1"
           /\ prov["p1"] # NoRow /\ prov["h1"] # NoRow)
          => /\ call'[c].pc = "done" /\ call'[c].res = "EntityInUse"
             /\ call'[c].drv = 0 /\ ~call'[c].passed
             /\ prov' = prov]_vars

C10_Witness ==
    \E c \in Callers :
        /\ call[c].pc = "done" /\ call[c].res = "EntityInUse"
        /\ call[c].verb = "delete" /\ call[c].tgt = "p1"
        /\ prov["p1"] = ACTIVE /\ prov["h1"] = ACTIVE /\ prov["lb1"] = ACTIVE
        /\ call[c].drv = 0

\* C2 as stated: once more than request_poll_timeout + request_poll_interval
\* has passed since an operation was accepted by the Octavia driver, the
\* provisioning status of its resource is terminal (ACTIVE, ERROR or no row).
C2_TerminalWithinBound ==
    \A t \in TaskIds :
        (/\ task[t].pc # "free"
         /\ task[t].elapsed > request_poll_timeout + request_poll_interval)
        => Terminal(task[t].id)

C6_ErrorFailsExactlyOnce ==
    /\ [](\A t \in TaskIds :
            (task[t].pc # "free" /\ task[t].prov_status = ERROR)
            => /\ task[t].pc = "done"
               /\ task[t].fail = 1 /\ task[t].succ = 0)
    /\ [][\A t \in TaskIds :
            task[t].fail > 0 => /\ task'[t].polls = task[t].polls
                                   \/ task'[t].pc = "free"
                                /\ task'[t].fail <= task[t].fail]_vars

C6_Witness ==
    \E t \in TaskIds :
        /\ task[t].pc = "done" /\ task[t].polls = 2
        /\ task[t].prov_status = ERROR
        /\ task[t].fail = 1 /\ task[t].succ = 0

C8_CallbackAfterFailedPoll ==
    \A t \in TaskIds :
        task[t].pc = "dead" => Callbacks(t) >= 1 /\ Terminal(task[t].id)

\* C9: successful_completion is passed lb_create=true only for a load
\* balancer create; with allocates_vip, after a load balancer create was
\* reconciled successfully the entity's and the stored vip_address are the
\* ip_address of the report that ended the reconciliation.
C9_VipFromBackend ==
    \A t \in TaskIds :
        /\ task[t].kw_lb_create
           => task[t].verb = "create" /\ Kind(task[t].id) = "loadbalancer"
        /\ (/\ allocates_vip /\ task[t].succ = 1
            /\ task[t].verb = "create" /\ Kind(task[t].id) = "loadbalancer")
           => /\ task[t].kw_lb_create
              /\ task[t].vip = task[t].reported_ip
              /\ vip_address = task[t].reported_ip

C9_Witness ==
    \E t \in TaskIds :
        /\ allocates_vip /\ task[t].succ = 1 /\ task[t].kw_lb_create
        /\ task[t].id = "lb1" /\ task[t].reported_ip = "10.1.1.1"
        /\ vip_address = "10.1.1.1" /\ prov["lb1"] = ACTIVE

\* C11 as stated: the load balancer is never PENDING_DELETE, and never handed
\* to the driver's delete, while a listener or a pool row hangs under it.
C11_NeverPendingDeleteWithChildren ==
    /\ prov["lb1"] = PENDING_DELETE
          => prov["ls1"] = NoRow /\ prov["p1"] = NoRow
    /\ \A c \in Callers :
          (call[c].verb = "delete" /\ call[c].tgt = "lb1" /\ call[c].drv > 0)
          => prov["ls1"] = NoRow /\ prov["p1"] = NoRow

\* what C12 says of a session persistence: rejected when it is APP_COOKIE
\* without a (non-empty) cookie_name, or of another type and carrying the
\* cookie_name key
SpInvalid == "SessionPersistenceConfigurationInvalid"
SpMustBeRejected(sp) ==
    /\ sp.given
    /\ \/ sp.type = "APP_COOKIE" /\ ~(sp.has_cookie_name /\ sp.cookie_name # "")
       \/ sp.type # "APP_COOKIE" /\ sp.has_cookie_name

\* C12: update_pool, and create_pool once its listener and load balancer
\* checks are passed, raise SessionPersistenceConfigurationInvalid exactly
\* for an APP_COOKIE session persistence without cookie_name and for one of
\* another type with a cookie_name; APP_COOKIE with a cookie_name, another
\* type without one and an absent session persistence are accepted.
C12_SessionPersistenceValidation ==
    [][\A c \in Callers :
         (call[c].pc = "idle" /\ call'[c].tgt = "p1")
         => /\ \A req \in Requests("update", "p1") :
                  Begin(c, "update", "p1", req)
                  => (call'[c].res = SpInvalid <=> SpMustBeRejected(req.sp))
            /\ \A req \in Requests("create", "p1") :
                  (/\ call'[c].res \in {"none", SpInvalid}
                   /\ Begin(c, "create", "p1", req))
                  => (call'[c].res = SpInvalid <=> SpMustBeRejected(req.sp))]_vars

C12_Witness ==
    \E c, d \in Callers :
        /\ call[c].pc = "done" /\ call[c].res = SpInvalid
        /\ call[c].verb = "create" /\ call[c].tgt = "p1"
        /\ call[d].pc = "tas" /\ call[d].verb = "update" /\ call[d].tgt = "p1"
        /\ prov["p1"] = ACTIVE

\* C13 as stated: once the reconciliation of a delete of a resource the
\* backend has no record of has ended with a completion callback, the local
\* row is removed (not left PENDING_DELETE, not ERROR).
C13_AbsentDeleteFinalized ==
    \A t \in TaskIds :
        (task[t].gone /\ task[t].pc = "done") => prov[task[t].id] = NoRow

\* C14 as stated: in the haproxy namespace driver the delete of every
\* manager returns without raising when what it deletes is already gone (no
\* running instance, a listener not in the listener list, a member not in
\* the member list).
C14_DeleteReturns ==
    hap.op \in {"loadbalancer.delete", "listener.delete", "member.delete"}
        => hap.raised = "none"

ValidationErrors ==
    {SpInvalid, "ListenerAndPoolMustBeOnSameLoadbalancer",
     "ListenerDefaultPoolAlreadySet", "ListenerMustHaveLoadbalancer",
     "PoolMustHaveLoadbalancer"} \cup TlsErrors

\* C16 as stated: a call that is rejected with a validation error has passed
\* no test_and_set_status (it changed no provisioning status at any point)
\* and has invoked no driver.
C16_ValidationBeforeMutation ==
    \A c \in Callers :
        call[c].res \in ValidationErrors
        => ~call[c].passed /\ call[c].drv = 0

\* C17: a call that test_and_set_status rejects with StateInvalid is
\* local-only: the rejecting step changes no provisioning status and ends
\* the call, the steps that brought the call to test_and_set_status changed
\* the status of no existing row, and the call has invoked no driver method.
C17_RejectedTransitionLocalOnly ==
    /\ [](\A c \in Callers :
            call[c].res = "StateInvalid"
            => call[c].pc = "done" /\ call[c].drv = 0 /\ ~call[c].passed)
    /\ [][\A c \in Callers :
            /\ (call[c].pc = "tas" /\ call'[c].res = "StateInvalid")
               => prov' = prov
            /\ (call[c].pc # "tas" /\ call'[c].pc = "tas")
               => \A x \in Ids : prov[x] # NoRow => prov'[x] = prov[x]]_vars

C17_Witness ==
    \E c, d \in Callers :
        /\ call[c].pc = "done" /\ call[c].res = "StateInvalid"
        /\ call[c].verb = "delete" /\ call[c].tgt = "ls1" /\ call[c].drv = 0
        /\ call[d].pc = "driver" /\ call[d].verb = "update"
        /\ call[d].tgt = "lb1"
        /\ prov["lb1"] = PENDING_UPDATE /\ prov["ls1"] = ACTIVE

\* C18: a call of an async_op-wrapped manager method that returns without
\* raising has started exactly one thread_op, for its entity, and has not
\* waited for it (the thread has not polled, no status has changed); a call
\* whose request raises has started none, has invoked failed_completion
\* once, and raises.
C18_OneTaskPerAcceptedCall ==
    [][\A c \in Callers :
          DriverReturns(c)
          => IF call'[c].res = "OK"
             THEN /\ \E t \in TaskIds :
                       /\ task[t].pc = "free" /\ task'[t].pc = "run"
                       /\ task'[t].id = call[c].tgt
                       /\ task'[t].verb = call[c].verb
                       /\ task'[t].polls = 0 /\ Callbacks(t)' = 0
                       /\ \A u \in TaskIds \ {t} : task'[u] = task[u]
                  /\ call'[c].fc = 0
                  /\ prov' = prov
             ELSE /\ task' = task
                  /\ call'[c].fc = 1
                  /\ prov'[call[c].tgt] = ERROR]_vars

C18_Witness ==
    \E c \in Callers, t \in TaskIds :
        /\ allocates_vip
        /\ call[c].pc = "done" /\ call[c].res = "OK" /\ call[c].drv = 1
        /\ call[c].verb = "create" /\ call[c].tgt = "lb1"
        /\ task[t].pc = "run" /\ task[t].id = "lb1" /\ task[t].polls = 0
        /\ task[t].lb_create
        /\ prov["lb1"] = PENDING_CREATE

C20_ProviderFlavorConflict ==
    /\ [](\A c \in Callers :
            call[c].res = "ProviderFlavorConflict"
            => call[c].pc = "done" /\ call[c].drv = 0)
    /\ [][\A c \in Callers :
            (call[c].pc = "idle" /\ call'[c].tgt = "lb1"
             /\ call'[c].verb = "create")
            => \A req \in Requests("create", "lb1") :
                  (req.flavor /\ req.provider /\ Begin(c, "create", "lb1", req))
                  => /\ call'[c].res = "ProviderFlavorConflict"
                     /\ prov' = prov
                     /\ provider_assoc' = provider_assoc]_vars

C20_Witness ==
    \E c \in Callers :
        /\ call[c].pc = "done" /\ call[c].res = "ProviderFlavorConflict"
        /\ call[c].verb = "create" /\ call[c].tgt = "lb1" /\ call[c].drv = 0
        /\ prov["lb1"] = NoRow /\ ~provider_assoc

\* C21: once the orphan check of start-up has run, it has raised SystemExit
\* when some stored load balancer (v2) or pool (v1) is bound to a provider
\* name that is not configured, and it has returned when there is none.
Orphaned ==
    \E i \in 1..Len(boot.stored) :
        boot.stored[i] \in ProviderNames \ boot.provider_names
C21_RefusesToStartIffOrphaned ==
    boot.result # "none" =>
        /\ Orphaned => boot.result = "SystemExit"
        /\ ~Orphaned => boot.result = "ok"

\* C22: a load balancer whose create_loadbalancer call is over is bound to
\* a provider, the binding does not change while the row exists, and every
\* driver call for the load balancer or one of its descendants goes to the
\* driver of the bound provider.
CreatingLoadBalancer ==
    \E c \in Callers :
        InFlight(c) /\ call[c].verb = "create" /\ call[c].tgt = "lb1"
C22_BoundAtCreation ==
    (prov["lb1"] # NoRow /\ ~CreatingLoadBalancer)
    => (provider_assoc /\ provider_name \in ProviderNames)
C22_BindingNeverChanges ==
    [][(prov["lb1"] # NoRow /\ prov'["lb1"] # NoRow /\ provider_assoc)
       => (provider_assoc' /\ provider_name' = provider_name)]_vars
C22_DispatchedToBoundProvider ==
    [][\A c \in Callers :
         (call[c].pc = "driver" /\ call'[c].drv = call[c].drv + 1)
         => /\ call'[c].driver \in ProviderNames
            /\ call[c].verb = "create" /\ call[c].tgt = "lb1"
               => call'[c].driver = provider_name
            /\ ~(call[c].verb = "create" /\ call[c].tgt = "lb1")
               => call'[c].driver = provider_name]_vars
C22_BoundToOneProviderForLife ==
    /\ []C22_BoundAtCreation
    /\ C22_BindingNeverChanges
    /\ C22_DispatchedToBoundProvider

\* C23: for an admin-enabled load balancer with an admin-enabled degraded
\* node, statuses() returns a report, and in it every admin-enabled ancestor
\* of the degraded node has operating_status DEGRADED.
Shown(node) == node.present /\ node.admin_state_up
UnderListener == view.tree.attached /\ Shown(view.tree.listener)
AncestorsDegraded(report, under_pool) ==
    /\ report.raised = "none"
    /\ report.loadbalancer = DEGRADED
    /\ UnderListener => report.listener = DEGRADED
    /\ under_pool => report.pool = DEGRADED
C23_AncestorsDegraded ==
    (view.asked /\ view.tree.lb.admin_state_up) =>
        LET t == view.tree
            r == view.report
        IN /\ (Shown(t.listener) /\ is_degraded(t.listener, FALSE))
              => (r.raised = "none" /\ r.loadbalancer = DEGRADED)
           /\ (Shown(t.pool) /\ is_degraded(t.pool, FALSE))
              => AncestorsDegraded(r, FALSE)
           /\ (Shown(t.pool) /\ Shown(t.member)
               /\ is_degraded(t.member, FALSE))
              => AncestorsDegraded(r, TRUE)
           /\ (Shown(t.pool) /\ Shown(t.healthmonitor)
               /\ is_degraded(t.healthmonitor, TRUE))
              => AncestorsDegraded(r, TRUE)

\* C24: when the v1 create_pool reaches the driver and no agent is eligible
\* (every agent is disabled, down or without the device driver), the call
\* raises NoEligibleBackend and the pool row is stored with status ERROR and
\* status description 'No eligible backend', and it still is when the call
\* has raised.
C24_NoEligibleBackend ==
    /\ [](v1.pc = "done" /\ v1.res = "NoEligibleBackend"
          => /\ v1.rows["pool"] = ERROR
             /\ v1.status_description = "No eligible backend")
    /\ [][(v1.pc = "driver" /\ v1'.pc = "done"
           /\ candidates(v1.agents) = {})
          => /\ v1'.res = "NoEligibleBackend"
             /\ v1'.rows["pool"] = ERROR
             /\ v1'.status_description = "No eligible backend"]_vars
C24_Witness ==
    /\ v1.pc = "done" /\ v1.res = "NoEligibleBackend"
    /\ v1.rows["pool"] = ERROR
    /\ v1.status_description = "No eligible backend"
    /\ \E a \in (1..MaxAgents) :
         v1.agents[a].has_device_driver
         /\ (~v1.agents[a].admin_state_up \/ v1.agents[a].is_agent_down)

\* C27: a status update for an object whose row is gone returns without
\* raising and leaves every stored row as it was.
C27_UpdateStatusOfDeletedRow ==
    [][\A obj_type \in V1Objs, status \in {ACTIVE, ERROR} :
         (v1.rows[obj_type] = NoRow /\ CallbacksUpdateStatus(obj_type, status))
         => /\ v1'.cb.raised = "none"
            /\ v1'.rows = v1.rows
            /\ v1'.status_description = v1.status_description
            /\ v1'.assoc = v1.assoc /\ v1'.hosting = v1.hosting]_vars
C27_Witness ==
    /\ v1.cb.obj_type \in V1Objs /\ ~v1.cb.found /\ v1.cb.raised = "none"
    /\ v1.told /\ v1.rows["pool"] = NoRow

\* C25: with the asynchronous driver, a delete that is accepted leaves the
\* row in PENDING_DELETE while its driver call and its thread are at work;
\* a row in PENDING_DELETE is removed only by the step in which the thread of
\* that delete reads a report of ACTIVE or DELETED; a thread of a delete
\* that ends in failure or timeout leaves the row in place.
C25_BeingDeleted(x) ==
    \/ \E c \in Callers : /\ call[c].verb = "delete" /\ call[c].tgt = x
                          /\ call[c].pc = "driver"
    \/ \E t \in TaskIds : /\ task[t].verb = "delete" /\ task[t].id = x
                          /\ task[t].pc \in {"run", "sleep"}
C25_RemovedOnlyOnConfirmation ==
    /\ [](\A x \in Ids : C25_BeingDeleted(x) => prov[x] = PENDING_DELETE)
    /\ [][\A x \in Ids :
            (prov[x] = PENDING_DELETE /\ prov'[x] = NoRow)
            => \E t \in TaskIds :
                 /\ task[t].pc = "run" /\ task[t].verb = "delete"
                 /\ task[t].id = x
                 /\ task'[t].pc = "done" /\ task'[t].succ = task[t].succ + 1
                 /\ task'[t].prov_status \in {ACTIVE, DELETED}]_vars
    /\ [][\A t \in TaskIds :
            (task[t].verb = "delete" /\ task'[t].fail = task[t].fail + 1)
            => prov'[task[t].id] \in {PENDING_DELETE, ERROR}]_vars
C25_Witness ==
    \E t \in TaskIds :
      /\ task[t].pc = "done" /\ task[t].verb = "delete" /\ task[t].succ = 1
      /\ task[t].prov_status = DELETED
      /\ prov[task[t].id] = NoRow

\* C26: a report of DELETED makes the thread call successful_completion only
\* when the operation is a delete, and then with delete = TRUE; for a create
\* or an update a report of DELETED does not call successful_completion.
C26_DeletedIsSuccessOnlyForDelete ==
    [][\A t \in TaskIds :
         (/\ task[t].pc = "run" /\ task'[t].polls = task[t].polls + 1
          /\ task'[t].prov_status = DELETED)
         => IF task[t].verb = "delete"
            THEN task'[t].succ = task[t].succ + 1 /\ task'[t].kw_delete
            ELSE task'[t].succ = task[t].succ]_vars

\* C28: two executions of deploy_instance / undeploy_instance exclude each
\* other if and only if they are for the same load balancer id: executions
\* for the same id are never inside together, and a caller that waits for
\* the lock while every execution that is inside is for another id can
\* take the lock.
C28_Inside(w) == ns.worker[w].pc \in {"in", "ran"}
C28_LockKeyedByInstance ==
    /\ \A w1, w2 \in Workers :
         (w1 # w2 /\ C28_Inside(w1) /\ C28_Inside(w2))
         => ns.worker[w1].id # ns.worker[w2].id
    /\ \A w \in Workers :
         (/\ ns.worker[w].pc = "waiting"
          /\ \A w2 \in Workers :
               C28_Inside(w2) => ns.worker[w2].id # ns.worker[w].id)
         => ENABLED NsAcquire(w)

\* C28 as the code has it: the lock is one lock for every instance, so
\* at most one execution of deploy_instance / undeploy_instance is inside
\* at a time whatever the ids, and a waiting caller can take the lock exactly
\* when no execution is inside.
C28_OneLockForAllInstances ==
    /\ \A w1, w2 \in Workers :
         (C28_Inside(w1) /\ C28_Inside(w2)) => w1 = w2
    /\ \A w \in Workers :
         ns.worker[w].pc = "waiting"
         => (ENABLED NsAcquire(w) <=> \A w2 \in Workers : ~C28_Inside(w2))
C28_Witness ==
    \E w1, w2 \in Workers :
      /\ C28_Inside(w1) /\ ns.worker[w2].pc = "waiting"
      /\ ns.worker[w1].id # ns.worker[w2].id
      /\ ~ENABLED NsAcquire(w2)

\* C29: when validate_cert fails for a fetched container, delete_cert is
\* called next, with the project, container reference and resource
\* reference that get_cert was called with; when TLSContainerInvalid is
\* raised that delete_cert has returned and the registration is gone.
C29_CompensatesBeforeRaising ==
    /\ [](tls.res = "TLSContainerInvalid"
          => /\ tls.got # <<>> /\ tls.deleted = tls.got
             /\ tls.got \notin tls.registered)
    /\ [][(tls.pc = "validate" /\ tls'.pc # "validate"
           /\ ~(tls'.pc = "get" \/ tls'.res = "True"))
          => tls'.pc = "delete" /\ tls'.res = "none"]_vars
    /\ [][(tls.pc = "delete" /\ tls'.res = "TLSContainerInvalid")
          => /\ tls'.deleted = <<tls.tenant_id, tls.to_validate[tls.i],
                                 get_service_url(tls.lb_id)>>
             /\ tls'.deleted = tls.got]_vars
C29_Witness ==
    /\ tls.pc = "done" /\ tls.res = "TLSContainerInvalid"
    /\ tls.deleted = tls.got /\ tls.got # <<>>
    /\ tls.i = 2 /\ tls.registered # {}

\* C30: the default pool of a listener is on the listener's load balancer
\* in every state, and create_listener, update_listener and create_pool
\* raise ListenerAndPoolMustBeOnSameLoadbalancer, with nothing written, for
\* a request that names an existing listener or pool together with a pool
\* or load balancer of another tree.
C30_Mismatch(verb, id, req) ==
    \/ /\ verb = "create" /\ id = "ls1"
       /\ req.pool # "" /\ req.lb # ""
       /\ req.pool = "p1" => prov["p1"] # NoRow
       /\ req.lb # pool_loadbalancer(req.pool)
    \/ /\ verb = "update" /\ id = "ls1" /\ prov["ls1"] # NoRow
       /\ req.pool # "" /\ pool_loadbalancer(req.pool) # root_loadbalancer("ls1")
    \/ /\ verb = "create" /\ id = "p1"
       /\ req.listener = "ls1" /\ prov["ls1"] # NoRow
       /\ req.lb # "" /\ req.lb # root_loadbalancer("ls1")
C30_ListenerAndPoolOnSameLoadbalancer ==
    /\ [](default_pool_id # ""
          => pool_loadbalancer(default_pool_id) = root_loadbalancer("ls1"))
    /\ [][\A c \in Callers :
            (call[c].pc = "idle" /\ call'[c].pc # "idle")
            => \A verb \in {"create", "update"}, id \in {"ls1", "p1"} :
                 \A req \in Requests(verb, id) :
                   (C30_Mismatch(verb, id, req) /\ Begin(c, verb, id, req))
                   => /\ call'[c].pc = "done"
                      /\ call'[c].res =
                           "ListenerAndPoolMustBeOnSameLoadbalancer"
                      /\ prov' = prov
                      /\ default_pool_id' = default_pool_id]_vars
C30_Witness ==
    /\ default_pool_id = "p1" /\ prov["ls1"] # NoRow /\ prov["p1"] # NoRow
    /\ \E c \in Callers :
         /\ call[c].pc = "done" /\ call[c].verb = "update"
         /\ call[c].tgt = "ls1"
         /\ call[c].res = "ListenerAndPoolMustBeOnSameLoadbalancer"

\* C31: create_healthmonitor on a pool that has a monitor raises
\* OneHealthMonitorPerPool, and a create_healthmonitor call inserts its
\* monitor only when the pool has none, so that of two calls for one pool at
\* most one creates a monitor.
C31_OneHealthMonitorPerPool ==
    /\ [][\A c \in Callers :
            (/\ call[c].pc = "idle" /\ prov["p1"] # NoRow /\ prov["h1"] # NoRow
             /\ Begin(c, "create", "h1", NoReq))
            => /\ call'[c].pc = "done"
               /\ call'[c].res = "OneHealthMonitorPerPool"]_vars
    /\ [][\A c \in Callers :
            (/\ call[c].pc = "dbwrite" /\ call[c].verb = "create"
             /\ call[c].tgt = "h1" /\ call'[c].pc = "driver")
            => prov["h1"] = NoRow]_vars

\* C32: a call of a driver_op-wrapped manager method invokes exactly one
\* completion callback: successful_completion, and no failed_completion,
\* when the method returns; failed_completion, and no
\* successful_completion, with the exception re-raised, when it raises.
C32_ExactlyOneCompletion ==
    /\ [](\A c \in Callers : call[c].drv = 1 => call[c].sc + call[c].fc = 1)
    /\ [][\A c \in Callers :
            (call[c].pc = "driver" /\ call'[c].drv = call[c].drv + 1)
            => \/ call'[c].sc = 1 /\ call'[c].fc = 0 /\ call'[c].res = "OK"
               \/ call'[c].sc = 0 /\ call'[c].fc = 1 /\ call'[c].res # "OK"]_vars

\* C33: when a local failure after test_and_set_status makes a create or an
\* update roll back, neither the row the call is about nor its root load
\* balancer is left in PENDING_UPDATE.
C33_RollbackRestores ==
    [][\A c \in Callers :
         (/\ call[c].pc = "dbwrite" /\ call[c].passed
          /\ call'[c].pc = "done"
          /\ call'[c].res \in DbWriteErrors(call[c].verb, call[c].tgt))
         => /\ prov'[call[c].tgt] # PENDING_UPDATE
            /\ prov'[root_loadbalancer(call[c].tgt)] # PENDING_UPDATE]_vars

\* C35: when create_pool is rejected by test_and_set_status, because the
\* load balancer cannot be moved to PENDING_UPDATE, no new pool row remains:
\* the rejected create leaves the stored pools as they were before the call.
C35_RejectedCreatePoolLeavesNoRow ==
    [][\A c \in Callers :
         (/\ call[c].pc = "tas" /\ call[c].verb = "create"
          /\ call[c].tgt = "p1"
          /\ call'[c].pc = "done" /\ call'[c].res = "StateInvalid")
         => prov'["p1"] = NoRow]_vars

\* C36: deployed_loadbalancers holds exactly the load balancers whose
\* instance is deployed: an id is a key once its instance is spawned and is
\* no longer a key once undeploy_instance for it has run.
C36_DeployedMapIsExact ==
    /\ [](ns.deployed_loadbalancers = ns.running)
    /\ [][\A w \in Workers :
            (/\ ns.worker[w].pc = "in" /\ ns'.worker[w].pc = "ran"
             /\ ns.worker[w].op = "undeploy_instance")
            => ns.worker[w].id \notin ns'.deployed_loadbalancers]_vars

\* C34: after LoadBalancerManager.refresh returns, an instance exists for
\* the load balancer exactly when the load balancer is deployable: a
\* deployable one is spawned or reconfigured, a non-deployable one with a
\* running instance is undeployed.
C34_RefreshExistsIffDeployable ==
    /\ [](hap.op = "loadbalancer.update" => hap.exists = hap.deployed)
    /\ [][hap'.op = "loadbalancer.update" /\ hap' # hap
          => \/ hap'.deployed = TRUE /\ hap'.exists
             \/ hap'.deployed = FALSE /\ ~hap'.exists]_vars
C34_Witness ==
    /\ hap.op = "loadbalancer.update"
    /\ hap.deployed = FALSE /\ ~hap.exists

\* C37: in the report of statuses(), a degraded or disabled health monitor
\* or member of a pool that is not the default pool of a listener is
\* reported under that pool and marks only the pool and the load balancer
\* DEGRADED: the listener's entry is what the listener alone gives, and the
\* call does not fail.
C37_UnlistedPoolMarksOnlyPool ==
    LET t == view.tree
        r == view.report
        Troubled(n, exclude) ==
            n.present /\ (~n.admin_state_up \/ is_degraded(n, exclude))
        Marks(n, exclude) ==
            n.present /\ n.admin_state_up /\ is_degraded(n, exclude)
    IN (/\ view.asked /\ t.lb.admin_state_up
        /\ Shown(t.pool) /\ ~t.attached
        /\ Troubled(t.member, FALSE) \/ Troubled(t.healthmonitor, TRUE))
       => /\ r.raised = "none"
          /\ r.listener = IF ~t.listener.present THEN "absent"
                          ELSE IF ~t.listener.admin_state_up THEN DISABLED
                          ELSE t.listener.operating_status
          /\ (Marks(t.member, FALSE) \/ Marks(t.healthmonitor, TRUE))
             => r.pool = DEGRADED /\ r.loadbalancer = DEGRADED

\* C38: sync_state never undeploys the instance of a pool the server still
\* holds ready for the agent: _destroy_pool and remove_orphans tear down
\* only instances of pools that are not ready, also when get_ready_devices
\* or the reload of a ready pool fails in that run.
C38_SyncKeepsReadyInstances ==
    mgr.last.op = "sync_state"
        => mgr.last.undeployed \cap ready_instances(mgr) = {}

\* C39: a failure of get_ready_devices, of a reload, of a destroy or of a
\* statistics collection sets needs_resync; periodic_resync clears the flag
\* and runs sync_state; and once those calls have stopped failing the agent
\* reaches, and stays in, a state where needs_resync is false and
\* instance_mapping holds exactly the ready pools whose driver is loaded.
C39_Synced ==
    /\ mgr.started /\ ~mgr.needs_resync
    /\ \A p \in PoolIds :
         mgr.instance_mapping[p] =
            IF mgr.ready[p] \in device_drivers THEN mgr.ready[p] ELSE NoDriver
C39_ResyncConverges ==
    /\ [][(mgr'.failures > mgr.failures) => mgr'.needs_resync]_vars
    /\ [][(mgr.needs_resync /\ mgr'.last.op = "sync_state"
           /\ mgr'.failures = mgr.failures)
          => ~mgr'.needs_resync]_vars
    /\ <>[]C39_Synced

\* C40: a create or an update of a vip, pool, member or pool health monitor
\* handled by the agent sends exactly one status report for the object:
\* ERROR when the driver raised or, for create_pool, the driver is not
\* loaded, otherwise ACTIVE or DISABLED after admin_state_up; and a pool is
\* added to instance_mapping only when no error was reported.
C40_OneStatusReport ==
    /\ [](mgr.last.op \in {"create", "update"}
          => mgr.last.reports =
               <<reported_status(mgr.last.raised # "none",
                                 mgr.last.admin_state_up)>>)
    /\ [][\A p \in PoolIds :
            (mgr.instance_mapping[p] = NoDriver
             /\ mgr'.instance_mapping[p] # NoDriver
             /\ mgr'.last.op = "create")
            => mgr'.last.reports # <<ERROR>>]_vars

====
